---- MODULE Spec2Model ----
(***************************************************************************)
(* Model of the course generator (server: extraction of the JSON reply,    *)
(* course creation handlers, static exporter; client: the live viewer).    *)
(*                                                                         *)
(* Text is a sequence of one-character strings.  JavaScript positions are  *)
(* 0-based; the model's positions are 1-based and "not found" (-1 in the   *)
(* source) is 0.                                                           *)
(***************************************************************************)
EXTENDS Integers, Sequences, FiniteSets, TLC

(***************************************************************************)
(* Bounds of the model.                                                    *)
(***************************************************************************)
\* longest prose before / after the JSON in a raw reply
MaxProse == 1
\* longest string value (in string items) inside a generated JSON object
MaxStr == 2
\* creation requests in flight
MaxReqs == 2
\* last value of the clock
MaxClock == 2
\* shape of the courses handed to the exporter
MaxLessons == 2
MaxQuestions == 2
MaxOptions == 2
MaxExercises == 1
MaxTestCases == 1
\* export calls on one course
MaxExports == 2
\* clicks of the reader on an open course page
MaxClicks == 3
\* requests the store answers (create, get, update, export steps)
MaxOps == 3
\* export requests in flight
MaxCalls == 2
\* options the editor lets a question grow to
MaxEditorOptions == 4
\* edits between opening the editor and the end of a run with saves
MaxEdits == 3
\* fenced blocks in a raw reply
MaxBlocks == 2
\* upload requests, one after the other
MaxUploads == 3
\* saves of one editor session
MaxSaves == 2

VARIABLES
    raw,        \* the reply text handed to extractAndParseJSON
    extracted,  \* its outcome [threw, value], or NotYet
    reqs,       \* creation requests: where each is in its handler, and its locals
    courses,    \* rows of the courses table
    debugFiles, \* debug-raw-response.txt, debug-json-response.json, debug-error-summary.json
    grokApiKey, \* whether GROK_API_KEY is set
    clock,      \* Date.now()
    exportCourse, \* course_data of the row the export endpoint reads
    rendered,   \* the documents generateStandaloneApp returned, with the time of each call
    state,      \* exported page: the script's state object
    dom,        \* exported page: classes and display of the elements the script touches
    selectedAnswers,  \* live viewer: useState hook
    showExplanations, \* live viewer: useState hook
    codeSolutions,    \* live viewer: useState hook
    lastClick,  \* the reader's latest click: its kind and the question or exercise clicked
    clicks,     \* number of clicks so far
    lastAnswer, \* store endpoints: the latest request and the response it got
    ops,        \* store endpoints: number of steps taken
    exportCalls, \* export requests: where each is in the handler, and its locals
    exportsDir, \* the files and directories under exports/
    editedQuestion, \* course editor: one question of editedCourse
    lastEdit,   \* course editor: the latest operation, its index, and correctAnswer before it
    selectedCourse, \* the question in the course object the editor was opened on
    sharesCourse,   \* whether editedCourse holds that very question object
    saving,     \* the question in the body of the save request in flight, or NoSave
    editsLeft,  \* edits the run still makes; below 0: any number
    uploads,    \* the files under uploads/: folder, name and the request that sent the content
    prompts     \* per upload request: the files it sent and the files read for its prompt

(***************************************************************************)
(* Characters.                                                             *)
(***************************************************************************)
NL == "\n"
SP == " "
QUOTE == "\""
BSLASH == "\\"
\* the backtick character (named: the lexer accepts no backtick in a string)
TICK == "BACKTICK"

\* what String.prototype.trim and the regex class \s remove / match
WhiteSpace == {SP, NL}

Fence == <<TICK, TICK, TICK>>
FenceJson == <<TICK, TICK, TICK, "j", "s", "o", "n">>

(***************************************************************************)
(* String helpers: the methods of String.prototype the code uses.          *)
(***************************************************************************)
Min(S) == CHOOSE x \in S : \A y \in S : x <= y
Max(S) == CHOOSE x \in S : \A y \in S : x >= y

\* s.startsWith(pat, i-1)
startsWithAt(s, pat, i) ==
    /\ i >= 1
    /\ i + Len(pat) - 1 <= Len(s)
    /\ \A k \in 1..Len(pat) : s[i + k - 1] = pat[k]

\* s.indexOf(pat, from-1), 0 when absent
indexOfFrom(s, pat, from) ==
    LET hits == {i \in from..Len(s) : startsWithAt(s, pat, i)}
    IN  IF hits = {} THEN 0 ELSE Min(hits)

indexOf(s, pat) == indexOfFrom(s, pat, 1)

lastIndexOf(s, pat) ==
    LET hits == {i \in 1..Len(s) : startsWithAt(s, pat, i)}
    IN  IF hits = {} THEN 0 ELSE Max(hits)

\* s.substring(a-1, b-1): the characters at model positions a .. b-1
substring(s, a, b) == SubSeq(s, a, b - 1)

trim(s) ==
    LET keep == {i \in 1..Len(s) : s[i] \notin WhiteSpace}
    IN  IF keep = {} THEN <<>> ELSE SubSeq(s, Min(keep), Max(keep))

\* (s.match(/c/g) || []).length
countChar(s, c) == Cardinality({i \in 1..Len(s) : s[i] = c})

(***************************************************************************)
(* s.match(/<fence><label>\s*\n([\s\S]*?)\n<fence>/): leftmost opening; \s* *)
(* is greedy and backtracks, the group is lazy.  Result: [found, group].    *)
(***************************************************************************)
\* end (exclusive) of the whitespace run starting at position i
wsRunEnd(s, i) ==
    LET stops == {j \in i..Len(s) : s[j] \notin WhiteSpace}
    IN  IF stops = {} THEN Len(s) + 1 ELSE Min(stops)

\* positions of the newline that ends the opening line, for an opening at i
\* whose label ends just before position a: those for which a closing
\* newline-plus-fence follows
openNewlines(s, a) ==
    {j \in a..(wsRunEnd(s, a) - 1) :
        s[j] = NL /\ indexOfFrom(s, <<NL>> \o Fence, j + 1) # 0}

fenceMatchAt(s, opening, i) ==
    startsWithAt(s, opening, i) /\ openNewlines(s, i + Len(opening)) # {}

fenceMatch(s, opening) ==
    LET starts == {i \in 1..Len(s) : fenceMatchAt(s, opening, i)}
    IN  IF starts = {}
        THEN [found |-> FALSE, group |-> <<>>]
        ELSE LET i == Min(starts)
                 j == Max(openNewlines(s, i + Len(opening)))
                 e == indexOfFrom(s, <<NL>> \o Fence, j + 1)
             IN  [found |-> TRUE, group |-> SubSeq(s, j + 1, e - 1)]

(***************************************************************************)
(* The depth-counted brace scan of extractAndParseJSON.                    *)
(* Result: [braceCount, jsonEnd] as left by the for loop.                  *)
(***************************************************************************)
\* the scan as it would be without string tracking: every brace counts
RECURSIVE braceScanAllBraces(_, _, _, _, _, _)
braceScanAllBraces(s, i, braceCount, inString, escapeNext, jsonEnd) ==
    IF i > Len(s) THEN [braceCount |-> braceCount, jsonEnd |-> jsonEnd]
    ELSE LET c == IF s[i] = "{" THEN braceCount + 1
                  ELSE IF s[i] = "}" THEN braceCount - 1
                  ELSE braceCount
         IN  IF c = 0 THEN [braceCount |-> 0, jsonEnd |-> i + 1]
             ELSE braceScanAllBraces(s, i + 1, c, inString, FALSE, jsonEnd)

RECURSIVE braceScan(_, _, _, _, _, _)
braceScan(s, i, braceCount, inString, escapeNext, jsonEnd) ==
    IF i > Len(s) THEN [braceCount |-> braceCount, jsonEnd |-> jsonEnd]
    ELSE IF escapeNext THEN braceScan(s, i + 1, braceCount, inString, FALSE, jsonEnd)
    ELSE IF s[i] = BSLASH THEN braceScan(s, i + 1, braceCount, inString, TRUE, jsonEnd)
    ELSE IF s[i] = QUOTE THEN braceScan(s, i + 1, braceCount, ~inString, FALSE, jsonEnd)
    ELSE IF inString THEN braceScan(s, i + 1, braceCount, inString, FALSE, jsonEnd)
    ELSE LET c == IF s[i] = "{" THEN braceCount + 1
                  ELSE IF s[i] = "}" THEN braceCount - 1
                  ELSE braceCount
         IN  IF c = 0 THEN [braceCount |-> 0, jsonEnd |-> i + 1]
             ELSE braceScan(s, i + 1, c, inString, FALSE, jsonEnd)

\* the "Try to find JSON object directly" branch
directObject(jsonContent) ==
    LET firstBrace == indexOf(jsonContent, <<"{">>)
    IN  IF firstBrace = 0 THEN jsonContent
        ELSE LET r == braceScan(jsonContent, firstBrace, 0, FALSE, FALSE, firstBrace)
             IN  IF r.braceCount = 0
                 THEN substring(jsonContent, firstBrace, r.jsonEnd)
                 ELSE substring(jsonContent, firstBrace, Len(jsonContent) + 1)

\* "Validate JSON structure before parsing": cut to the first { and last }
cutToBraces(t) ==
    LET a == IF t # <<>> /\ t[1] = "{" THEN t
             ELSE LET firstBrace == indexOf(t, <<"{">>)
                  IN  IF firstBrace # 0
                      THEN substring(t, firstBrace, Len(t) + 1) ELSE t
    IN  IF a # <<>> /\ a[Len(a)] = "}" THEN a
        ELSE LET lastBrace == lastIndexOf(a, <<"}">>)
             IN  IF lastBrace # 0 /\ lastBrace > 1
                 THEN substring(a, 1, lastBrace + 1) ELSE a

\* the extraction as it would be with the brace scan tried before the fences
pickCandidateScanFirst(jsonContent) == directObject(jsonContent)

\* which of the three extraction branches supplies the candidate
pickCandidate(jsonContent) ==
    LET jsonBlockMatch == fenceMatch(jsonContent, FenceJson)
        codeBlockMatch == fenceMatch(jsonContent, Fence)
    IN  IF jsonBlockMatch.found THEN trim(jsonBlockMatch.group)
        ELSE IF codeBlockMatch.found THEN trim(codeBlockMatch.group)
        ELSE directObject(jsonContent)

\* the extraction as it would be without its final check of the length
extractAndParseJSONUnchecked(content, message) ==
    [threw |-> FALSE, value |-> cutToBraces(trim(pickCandidate(trim(content))))]

\* extractAndParseJSON(content, message): [threw, value]; threw is the
\* 'No JSON content extracted from API response' error
extractAndParseJSON(content, message) ==
    LET jsonContent == cutToBraces(trim(pickCandidate(trim(content))))
    IN  IF Len(jsonContent) = 0
        THEN [threw |-> TRUE, value |-> <<>>]
        ELSE [threw |-> FALSE, value |-> jsonContent]

(***************************************************************************)
(* JSON.parse as a recogniser of the JSON grammar over the characters the  *)
(* model uses: objects, strings with escapes, numbers, white space.  Each  *)
(* operator returns the position after the construct, or 0 when the text   *)
(* is not well formed there.                                               *)
(***************************************************************************)
JsonEscapes == {QUOTE, BSLASH, "/", "b", "f", "n", "r", "t"}
Digits == {"1"}

\* j is a position inside a string, after its opening quote
RECURSIVE stringEnd(_, _)
stringEnd(s, j) ==
    IF j > Len(s) THEN 0
    ELSE IF s[j] = QUOTE THEN j + 1
    ELSE IF s[j] = BSLASH
         THEN IF j + 1 <= Len(s) /\ s[j + 1] \in JsonEscapes
              THEN stringEnd(s, j + 2) ELSE 0
    ELSE IF s[j] = NL THEN 0
    ELSE stringEnd(s, j + 1)

RECURSIVE numberEnd(_, _)
numberEnd(s, i) ==
    IF i <= Len(s) /\ s[i] \in Digits THEN numberEnd(s, i + 1) ELSE i

RECURSIVE valueEnd(_, _)
RECURSIVE membersEnd(_, _)
valueEnd(s, i) ==
    IF i > Len(s) THEN 0
    ELSE IF s[i] = "{"
         THEN LET j == wsRunEnd(s, i + 1)
              IN  IF j <= Len(s) /\ s[j] = "}" THEN j + 1 ELSE membersEnd(s, j)
    ELSE IF s[i] = QUOTE THEN stringEnd(s, i + 1)
    ELSE IF s[i] \in Digits THEN numberEnd(s, i)
    ELSE 0

\* j is the position where a member ("key": value) must start
membersEnd(s, j) ==
    IF j > Len(s) \/ s[j] # QUOTE THEN 0
    ELSE LET k == stringEnd(s, j + 1)
             c == IF k = 0 THEN 0 ELSE wsRunEnd(s, k)
         IN  IF k = 0 \/ c > Len(s) \/ s[c] # ":" THEN 0
             ELSE LET e == valueEnd(s, wsRunEnd(s, c + 1))
                      d == IF e = 0 THEN 0 ELSE wsRunEnd(s, e)
                  IN  IF e = 0 \/ d > Len(s) THEN 0
                      ELSE IF s[d] = "}" THEN d + 1
                      ELSE IF s[d] = "," THEN membersEnd(s, wsRunEnd(s, d + 1))
                      ELSE 0

\* JSON.parse(text) returns (TRUE) or throws a SyntaxError (FALSE)
JSONparse(text) ==
    LET e == valueEnd(text, wsRunEnd(text, 1))
    IN  e # 0 /\ wsRunEnd(text, e) = Len(text) + 1

(***************************************************************************)
(* Raw replies of the model: prose, an optional fenced block, and a body   *)
(* that is a JSON object or a truncated one.                               *)
(***************************************************************************)
ProseChars == {"a", "{", "}", TICK}
StrItems == {<<"{">>, <<"}">>, <<BSLASH, QUOTE>>, <<BSLASH, BSLASH>>}

RECURSIVE Concats(_, _)
Concats(items, n) ==
    IF n = 0 THEN {<<>>}
    ELSE LET shorter == Concats(items, n - 1)
         IN  shorter \cup {s \o t : s \in shorter, t \in items}

Prose == Concats({<<c>> : c \in ProseChars}, MaxProse)
Strs == {<<QUOTE>> \o b \o <<QUOTE>> : b \in Concats(StrItems, MaxStr)}
KeyA == <<QUOTE, "a", QUOTE>>
Vals == Strs \cup {<<"1">>, <<"{", "}">>}
             \cup {<<"{">> \o KeyA \o <<":">> \o v \o <<"}">> : v \in Strs}
Objects == {<<"{", "}">>}
             \cup {<<"{">> \o KeyA \o <<":">> \o v \o <<"}">> : v \in Vals}
             \cup {<<"{", NL>> \o KeyA \o <<":", SP>> \o v \o <<NL, "}">> : v \in Vals}
Truncated == UNION {{SubSeq(o, 1, n) : n \in 1..(Len(o) - 1)} : o \in Objects}

(***************************************************************************)
(* Raw replies made of fenced blocks: each block with no label, with the   *)
(* label json or with another label, around an object, a word, white space *)
(* or nothing, with prose between the blocks and around them; and replies  *)
(* of white space alone.                                                   *)
(***************************************************************************)
FenceLabels == {<<>>, <<"a">>, <<"j", "s", "o", "n">>}
FenceBodies == {<<>>, <<SP>>, <<"a">>, <<"{">> \o KeyA \o <<":", "1", "}">>}
FenceProse == {<<>>, <<"{", "}">>}

Block(label, body) == Fence \o label \o <<NL>> \o body \o <<NL>> \o Fence

Blocks == {Block(label, body) : label \in FenceLabels, body \in FenceBodies}

\* one to n blocks, a line of prose between two of them
RECURSIVE BlockRuns(_)
BlockRuns(n) ==
    IF n = 1 THEN Blocks
    ELSE LET shorter == BlockRuns(n - 1)
         IN  shorter \cup UNION {{r \o <<NL>> \o mid \o <<NL>> \o b :
                                    r \in shorter, b \in Blocks} : mid \in FenceProse}

BlankReplies == {<<SP>>, <<NL>>, <<SP, NL>>}

(***************************************************************************)
(* The static exporter, generateStandaloneApp.  The document it returns is *)
(* a sequence of tokens: a chunk of the template (src "tpl"), a chunk that *)
(* JSON.stringify writes around values (src "json"), a number (src "num"), *)
(* or one character that comes from the course (src "data").  A template   *)
(* chunk that makes the browser load a resource carries its url.  A text   *)
(* field that is missing is the empty text: the code reads every field     *)
(* through || or through escapeHtml, which treat the two alike.            *)
(***************************************************************************)
APOS == "'"

Tpl(name) == <<[src |-> "tpl", c |-> name, url |-> ""]>>
TplLoad(name, url) == <<[src |-> "tpl", c |-> name, url |-> url]>>
Json(name) == <<[src |-> "json", c |-> name, url |-> ""]>>
DigitChars == <<"0", "1", "2", "3", "4", "5", "6", "7", "8", "9">>
\* the decimal text of a one-digit number
idxText(n) == <<DigitChars[n + 1]>>
Num(n) == <<[src |-> "num", c |-> DigitChars[n + 1], url |-> ""]>>
Data(text) == [i \in 1..Len(text) |-> [src |-> "data", c |-> text[i], url |-> ""]]

RECURSIVE joinFrom(_, _)
joinFrom(parts, k) ==
    IF k > Len(parts) THEN <<>> ELSE parts[k] \o joinFrom(parts, k + 1)

\* parts.join(''), parts being what map or forEach produced, in order
join(parts) == joinFrom(parts, 1)

\* escapeHtml: the five replacements, character by character
escapeChar(ch) ==
    IF ch = "&" THEN <<"&", "a", "m", "p", ";">>
    ELSE IF ch = "<" THEN <<"&", "l", "t", ";">>
    ELSE IF ch = ">" THEN <<"&", "g", "t", ";">>
    ELSE IF ch = QUOTE THEN <<"&", "q", "u", "o", "t", ";">>
    ELSE IF ch = APOS THEN <<"&", "#", "0", "3", "9", ";">>
    ELSE <<ch>>

RECURSIVE escapeFrom(_, _)
escapeFrom(text, k) ==
    IF k > Len(text) THEN <<>> ELSE escapeChar(text[k]) \o escapeFrom(text, k + 1)

escapeHtml(text) == escapeFrom(text, 1)

\* the characters of the model's ids that the class [a-zA-Z0-9-_] holds
IdSafeChars == {"l", "e", "s", "o", "n", "q", "x", "a", "b",
                "0", "1", "2", "3", "4", "5", "6", "7", "8", "9", "-", "_"}

\* id.replace(/[^a-zA-Z0-9-_]/g, '-')
sanitizeId(id) == [i \in 1..Len(id) |-> IF id[i] \in IdSafeChars THEN id[i] ELSE "-"]


\* text || fallback
orElse(text, fallback) == IF text = <<>> THEN fallback ELSE text

lessonIdOf(lesson, lessonIdx) ==
    sanitizeId(orElse(lesson.id, <<"l", "e", "s", "s", "o", "n", "-">> \o idxText(lessonIdx)))

questionIdOf(q, lessonIdx, qIdx) ==
    sanitizeId(orElse(q.id, <<"q", "-">> \o idxText(lessonIdx) \o <<"-">> \o idxText(qIdx)))

exerciseIdOf(ex, lessonIdx, exIdx) ==
    sanitizeId(orElse(ex.id, <<"e", "x", "-">> \o idxText(lessonIdx) \o <<"-">> \o idxText(exIdx)))

\* one option of a question
optionHTML(safeQuestionId, option, idx) ==
    Tpl("<div class=option data-question-id=") \o Data(safeQuestionId)
    \o Tpl(" data-option-index=") \o Num(idx)
    \o Tpl(" onclick=handleAnswerSelect(") \o Data(safeQuestionId) \o Tpl(",")
    \o Num(idx) \o Tpl(")>") \o Data(escapeHtml(option)) \o Tpl("</div>")

questionHTML(q, lessonIdx, qIdx) ==
    LET safeQuestionId == escapeHtml(questionIdOf(q, lessonIdx, qIdx))
        opt(option, idx) == optionHTML(safeQuestionId, option, idx)
    IN  Tpl("<div class=question data-question-id=") \o Data(safeQuestionId)
        \o Tpl("><h4>") \o Data(escapeHtml(q.question))
        \o Tpl("</h4><div class=options>")
        \o join([k \in 1..Len(q.options) |-> opt(q.options[k], k - 1)])
        \o Tpl("</div><button class=check-btn id=check-btn-") \o Data(safeQuestionId)
        \o Tpl(" onclick=checkAnswer(") \o Data(safeQuestionId) \o Tpl(",")
        \o Num(q.correctAnswer)
        \o Tpl(") style=display:none>Check Answer</button><div class=explanation id=explanation-")
        \o Data(safeQuestionId)
        \o Tpl(" style=display:none><strong>Explanation:</strong>")
        \o Data(escapeHtml(q.explanation)) \o Tpl("</div></div>")

testCaseHTML(testCase, idx) ==
    Tpl("<li>Input: <code>") \o Data(escapeHtml(testCase.input))
    \o Tpl("</code> Expected: <code>") \o Data(escapeHtml(testCase.expectedOutput))
    \o Tpl("</code></li>")

exerciseHTML(ex, lessonIdx, exIdx) ==
    LET safeExerciseId == escapeHtml(exerciseIdOf(ex, lessonIdx, exIdx))
    IN  Tpl("<div class=coding-exercise data-exercise-id=") \o Data(safeExerciseId)
        \o Tpl("><h4>") \o Data(escapeHtml(ex.title))
        \o Tpl("</h4><p>") \o Data(escapeHtml(ex.description)) \o Tpl("</p>")
        \o (IF Len(ex.testCases) > 0
            THEN Tpl("<div class=test-cases><strong>Test Cases:</strong><ul>")
                 \o join([k \in 1..Len(ex.testCases) |-> testCaseHTML(ex.testCases[k], k - 1)]) \o Tpl("</ul></div>")
            ELSE <<>>)
        \o Tpl("<div class=editor-container><textarea id=code-editor-")
        \o Data(safeExerciseId) \o Tpl(" class=code-textarea spellcheck=false>")
        \o Data(escapeHtml(ex.starterCode))
        \o Tpl("</textarea></div><button class=solution-btn onclick=toggleCodeSolution(")
        \o Data(safeExerciseId)
        \o Tpl(")>Show Solution</button><div class=solution id=solution-")
        \o Data(safeExerciseId)
        \o Tpl(" style=display:none><strong>Solution:</strong><pre><code>")
        \o Data(escapeHtml(ex.solution)) \o Tpl("</code></pre></div></div>")

lessonHTML(lesson, lessonIdx) ==
    LET safeLessonId == escapeHtml(lessonIdOf(lesson, lessonIdx))
        qh(q, qIdx) == questionHTML(q, lessonIdx, qIdx)
        eh(ex, exIdx) == exerciseHTML(ex, lessonIdx, exIdx)
    IN  Tpl("<div class=lesson-card data-lesson-id=") \o Data(safeLessonId)
        \o Tpl("><h2>")
        \o (IF lesson.title = <<>> THEN Tpl("Untitled Lesson")
            ELSE Data(escapeHtml(lesson.title)))
        \o Tpl("</h2><div class=lesson-content id=content-") \o Data(safeLessonId)
        \o Tpl("></div>")
        \o (IF Len(lesson.questions) > 0
            THEN Tpl("<div class=questions-section><h3>Questions</h3>")
                 \o join([k \in 1..Len(lesson.questions) |-> qh(lesson.questions[k], k - 1)]) \o Tpl("</div>")
            ELSE <<>>)
        \o (IF Len(lesson.codingExercises) > 0
            THEN Tpl("<div class=coding-section><h3>Coding Exercises</h3>")
                 \o join([k \in 1..Len(lesson.codingExercises) |-> eh(lesson.codingExercises[k], k - 1)]) \o Tpl("</div>")
            ELSE <<>>)
        \o Tpl("</div>")

generateLessonsHTML(lessons) == join([k \in 1..Len(lessons) |-> lessonHTML(lessons[k], k - 1)])

\* JSON.stringify of a string: quotes, and backslash escapes for the quote,
\* the backslash and the newline; every other character is copied
jsonEscapeChar(ch) ==
    IF ch = QUOTE THEN <<BSLASH, QUOTE>>
    ELSE IF ch = BSLASH THEN <<BSLASH, BSLASH>>
    ELSE IF ch = NL THEN <<BSLASH, "n">>
    ELSE <<ch>>

RECURSIVE jsonEscapeFrom(_, _)
jsonEscapeFrom(text, k) ==
    IF k > Len(text) THEN <<>>
    ELSE jsonEscapeChar(text[k]) \o jsonEscapeFrom(text, k + 1)

stringifyText(text) == Json(QUOTE) \o Data(jsonEscapeFrom(text, 1)) \o Json(QUOTE)

comma(idx) == IF idx > 0 THEN Json(",") ELSE <<>>

stringifyOption(option, idx) == comma(idx) \o stringifyText(option)

stringifyQuestion(q, idx) ==
    comma(idx) \o Json("{id:") \o stringifyText(q.id)
    \o Json(",question:") \o stringifyText(q.question)
    \o Json(",options:[") \o join([k \in 1..Len(q.options) |-> stringifyOption(q.options[k], k - 1)])
    \o Json("],correctAnswer:") \o Num(q.correctAnswer)
    \o Json(",explanation:") \o stringifyText(q.explanation) \o Json("}")

stringifyTestCase(testCase, idx) ==
    comma(idx) \o Json("{input:") \o stringifyText(testCase.input)
    \o Json(",expectedOutput:") \o stringifyText(testCase.expectedOutput) \o Json("}")

stringifyExercise(ex, idx) ==
    comma(idx) \o Json("{id:") \o stringifyText(ex.id)
    \o Json(",title:") \o stringifyText(ex.title)
    \o Json(",description:") \o stringifyText(ex.description)
    \o Json(",starterCode:") \o stringifyText(ex.starterCode)
    \o Json(",testCases:[") \o join([k \in 1..Len(ex.testCases) |-> stringifyTestCase(ex.testCases[k], k - 1)])
    \o Json("],solution:") \o stringifyText(ex.solution) \o Json("}")

stringifyLesson(lesson, idx) ==
    comma(idx) \o Json("{id:") \o stringifyText(lesson.id)
    \o Json(",title:") \o stringifyText(lesson.title)
    \o Json(",content:") \o stringifyText(lesson.content)
    \o Json(",questions:[") \o join([k \in 1..Len(lesson.questions) |-> stringifyQuestion(lesson.questions[k], k - 1)])
    \o Json("],codingExercises:[") \o join([k \in 1..Len(lesson.codingExercises) |-> stringifyExercise(lesson.codingExercises[k], k - 1)])
    \o Json("]}")

\* JSON.stringify(course, null, 2)
stringifyCourse(course) ==
    Json("{title:") \o stringifyText(course.title)
    \o Json(",description:") \o stringifyText(course.description)
    \o Json(",lessons:[") \o join([k \in 1..Len(course.lessons) |-> stringifyLesson(course.lessons[k], k - 1)]) \o Json("]}")

MarkedUrl == "https://cdn.jsdelivr.net/npm/marked@11.1.1/marked.min.js"

\* the template literal generateStandaloneApp returns
standaloneDocument(course) ==
    Tpl("<!DOCTYPE html><html><head><meta charset><meta viewport><title>")
    \o (IF course.title = <<>> THEN Tpl("Course") ELSE Data(course.title))
    \o Tpl("</title>")
    \o TplLoad("<script src></script>", MarkedUrl)
    \o Tpl("<style>...</style></head><body><div class=course-viewer><div class=course-header><h1>")
    \o (IF course.title = <<>> THEN Tpl("Course") ELSE Data(escapeHtml(course.title)))
    \o Tpl("</h1><p class=course-description>")
    \o Data(escapeHtml(course.description))
    \o Tpl("</p></div><div class=lessons>")
    \o generateLessonsHTML(course.lessons)
    \o Tpl("</div></div>")
    \o Tpl("<script>const courseData = ")
    \o stringifyCourse(course)
    \o Tpl("; ...functions... </script></body></html>")

\* the exporter as it would be if it stamped the document with the time
generateStandaloneAppStamped(course) ==
    standaloneDocument(course) \o Tpl("<!-- exported at -->") \o Num(clock)

generateStandaloneApp(course) == standaloneDocument(course)

(***************************************************************************)
(* Courses handed to the exporter: a course of full shape in which one     *)
(* text field at a time holds each of the sample texts.                    *)
(***************************************************************************)
ScriptText == <<"<", "s", "c", "r", "i", "p", "t", ">", "a", "l", "e", "r", "t",
                "(", "1", ")", "<", "/", "s", "c", "r", "i", "p", "t", ">">>

SampleTexts ==
    { <<>>, <<"a">>, <<"&">>, <<APOS>>, <<QUOTE, "x">>, <<"<", "b", ">">>,
      <<BSLASH, NL>>, ScriptText }

plainQuestion(l, k) ==
    [id |-> <<"q">> \o idxText(l - 1) \o idxText(k - 1), question |-> <<"a">>,
     options |-> [o \in 1..MaxOptions |-> <<"a">>], correctAnswer |-> 0,
     explanation |-> <<"a">>]

plainExercise(l, k) ==
    [id |-> <<"x">> \o idxText(l - 1) \o idxText(k - 1), title |-> <<"a">>,
     description |-> <<"a">>, starterCode |-> <<"a">>, solution |-> <<"a">>,
     testCases |-> [t \in 1..MaxTestCases |-> [input |-> <<"a">>, expectedOutput |-> <<"a">>]]]

plainLesson(l) ==
    [id |-> <<"l">> \o idxText(l - 1), title |-> <<"a">>, content |-> <<"a">>,
     questions |-> [k \in 1..MaxQuestions |-> plainQuestion(l, k)],
     codingExercises |-> [k \in 1..MaxExercises |-> plainExercise(l, k)]]

PlainCourse ==
    [title |-> <<"a">>, description |-> <<"a">>,
     lessons |-> [l \in 1..MaxLessons |-> plainLesson(l)]]

\* PlainCourse with text t in one field
withText(t) ==
    LET P == PlainCourse
        L == 1..MaxLessons
        Q == 1..MaxQuestions
        O == 1..MaxOptions
        E == 1..MaxExercises
        T == 1..MaxTestCases
    IN  {[P EXCEPT !.title = t], [P EXCEPT !.description = t]}
        \cup {[P EXCEPT !.lessons[l].title = t] : l \in L}
        \cup {[P EXCEPT !.lessons[l].content = t] : l \in L}
        \cup {[P EXCEPT !.lessons[l].questions[q].question = t] : l \in L, q \in Q}
        \cup {[P EXCEPT !.lessons[l].questions[q].explanation = t] : l \in L, q \in Q}
        \cup {[P EXCEPT !.lessons[l].questions[q].options[o] = t] : l \in L, q \in Q, o \in O}
        \cup {[P EXCEPT !.lessons[l].codingExercises[e].title = t] : l \in L, e \in E}
        \cup {[P EXCEPT !.lessons[l].codingExercises[e].description = t] : l \in L, e \in E}
        \cup {[P EXCEPT !.lessons[l].codingExercises[e].starterCode = t] : l \in L, e \in E}
        \cup {[P EXCEPT !.lessons[l].codingExercises[e].solution = t] : l \in L, e \in E}
        \cup {[P EXCEPT !.lessons[l].codingExercises[e].testCases[c].input = t] :
                l \in L, e \in E, c \in T}
        \cup {[P EXCEPT !.lessons[l].codingExercises[e].testCases[c].expectedOutput = t] :
                l \in L, e \in E, c \in T}

ExportCourses == UNION {withText(t) : t \in SampleTexts}

(***************************************************************************)
(* The course page.  The exported document's script and the live viewer    *)
(* show the same course and receive the same clicks.  An object used as a  *)
(* dictionary is a function whose domain is the keys written so far.       *)
(***************************************************************************)
NoEntries == <<>>

\* obj[key] = value
put(obj, key, value) == [x \in (DOMAIN obj) \cup {key} |-> IF x = key THEN value ELSE obj[x]]

\* obj[key] !== undefined
has(obj, key) == key \in DOMAIN obj

\* obj[key] === idx
holds(obj, key, idx) == has(obj, key) /\ obj[key] = idx

\* obj[key] taken as a condition: undefined counts as false
truthy(obj, key) == has(obj, key) /\ obj[key]

\* the questions of the course in document order, each with its lesson
questionsOf(course) ==
    join([l \in 1..Len(course.lessons) |->
            [k \in 1..Len(course.lessons[l].questions) |->
                [lesson |-> course.lessons[l], lessonIdx |-> l - 1,
                 q |-> course.lessons[l].questions[k], qIdx |-> k - 1]]])

\* the coding exercises of the course in document order
exercisesOf(course) ==
    join([l \in 1..Len(course.lessons) |->
            [k \in 1..Len(course.lessons[l].codingExercises) |->
                [lesson |-> course.lessons[l], lessonIdx |-> l - 1,
                 ex |-> course.lessons[l].codingExercises[k], exIdx |-> k - 1]]])

QuestionAt(course) == 1..Len(questionsOf(course))
ExerciseAt(course) == 1..Len(exercisesOf(course))

\* exported page: the id written into the attributes of question p
domQuestionId(course, p) ==
    LET e == questionsOf(course)[p] IN questionIdOf(e.q, e.lessonIdx, e.qIdx)

\* exported page: the id written into the attributes of exercise x
domExerciseId(course, x) ==
    LET e == exercisesOf(course)[x] IN exerciseIdOf(e.ex, e.lessonIdx, e.exIdx)

\* document.querySelector / getElementById: the first match in document order
firstQuestion(course, questionId) ==
    CHOOSE p \in QuestionAt(course) :
        /\ domQuestionId(course, p) = questionId
        /\ \A r \in 1..(p - 1) : domQuestionId(course, r) # questionId

firstExercise(course, exerciseId) ==
    CHOOSE x \in ExerciseAt(course) :
        /\ domExerciseId(course, x) = exerciseId
        /\ \A r \in 1..(x - 1) : domExerciseId(course, r) # exerciseId

\* the exported script's state object as declared
FreshState ==
    [selectedAnswers |-> NoEntries, showExplanations |-> NoEntries, codeSolutions |-> NoEntries]

\* the exported markup as written: no option has a class beyond option,
\* check buttons, explanations and solutions have display none
FreshDom(course) ==
    [optionClasses |-> [p \in QuestionAt(course) |->
                          [i \in 1..Len(questionsOf(course)[p].q.options) |-> {}]],
     checkBtn |-> [p \in QuestionAt(course) |-> FALSE],
     explanation |-> [p \in QuestionAt(course) |-> FALSE],
     solution |-> [x \in ExerciseAt(course) |-> FALSE],
     solutionBtn |-> [x \in ExerciseAt(course) |-> "Show Solution"]]

\* a template literal writes an absent value as the word undefined
templateText(id) ==
    IF id = <<>> THEN <<"u", "n", "d", "e", "f", "i", "n", "e", "d">> ELSE id

\* live viewer: uniqueQuestionId of question p
uniqueQuestionId(course, p) ==
    LET e == questionsOf(course)[p]
    IN  templateText(e.lesson.id) \o <<"-">> \o orElse(e.q.id, idxText(e.qIdx))

\* live viewer: the key of exercise x in codeSolutions (ex.id, absent or not)
exerciseKey(course, x) == templateText(exercisesOf(course)[x].ex.id)

\* live viewer: the className of option idx of question p, beyond option
liveOptionClasses(course, p, idx) ==
    LET uid == uniqueQuestionId(course, p)
        correctAnswer == questionsOf(course)[p].q.correctAnswer
    IN  (IF holds(selectedAnswers, uid, idx) THEN {"selected"} ELSE {})
        \cup (IF truthy(showExplanations, uid) /\ idx = correctAnswer
              THEN {"correct"} ELSE {})
        \cup (IF truthy(showExplanations, uid) /\ holds(selectedAnswers, uid, idx)
                 /\ idx # correctAnswer
              THEN {"incorrect"} ELSE {})

\* live viewer: the check button of question p is rendered
liveCheckBtn(course, p) == has(selectedAnswers, uniqueQuestionId(course, p))

\* live viewer: the explanation of question p is rendered
liveExplanation(course, p) == truthy(showExplanations, uniqueQuestionId(course, p))

\* live viewer: the solution of exercise x is rendered
liveSolution(course, x) == truthy(codeSolutions, exerciseKey(course, x))

NoClick == [kind |-> "none", at |-> 0]

(***************************************************************************)
(* Courses shown on the page: two lessons of one question (two options)    *)
(* and one exercise each; the ids are distinct, absent, equal, or differ   *)
(* only in a character outside the id class.                               *)
(***************************************************************************)
pageQuestion(id, correctAnswer) ==
    [id |-> id, question |-> <<"a">>, options |-> << <<"a">>, <<"b">> >>,
     correctAnswer |-> correctAnswer, explanation |-> <<"a">>]

pageExercise(id) ==
    [id |-> id, title |-> <<"a">>, description |-> <<"a">>, starterCode |-> <<"a">>,
     solution |-> <<"a">>, testCases |-> <<>>]

pageLesson(id, questionId, correctAnswer, exerciseId) ==
    [id |-> id, title |-> <<"a">>, content |-> <<"a">>,
     questions |-> <<pageQuestion(questionId, correctAnswer)>>,
     codingExercises |-> <<pageExercise(exerciseId)>>]

LessonIds == { << <<"l", "0">>, <<"l", "1">> >>, << <<>>, <<>> >> }

QuestionIds ==
    { << <<"q", "0">>, <<"q", "1">> >>,
      << <<"q", "1">>, <<"q", "1">> >>,
      << <<"q", ".", "1">>, <<"q", " ", "1">> >>,
      << <<>>, <<>> >> }

ExerciseIds == { << <<"x", "0">>, <<"x", "1">> >>, << <<"x", "0">>, <<"x", "0">> >> }

PageCourses ==
    { [title |-> <<"a">>, description |-> <<"a">>,
       lessons |-> << pageLesson(li[1], qi[1], 1, xi[1]), pageLesson(li[2], qi[2], 0, xi[2]) >>] :
         li \in LessonIds, qi \in QuestionIds, xi \in ExerciseIds }

(***************************************************************************)
(* Course documents as the store endpoints see them.  An absent text is    *)
(* the word undefined, an absent id or time is 0, and the lessons field    *)
(* carries its JSON kind.  The store is taken to be configured and         *)
(* reachable; it refuses a row whose id is taken or whose title is null.   *)
(***************************************************************************)
Undef == "undefined"

\* !text
falsyText(text) == text = Undef \/ text = ""

\* text || ''
orEmpty(text) == IF falsyText(text) THEN "" ELSE text

NoLessons == [kind |-> "undefined", items |-> <<>>]
LessonsArray(items) == [kind |-> "array", items |-> items]
LessonsString == [kind |-> "string", items |-> <<>>]

sampleQuestion(correctAnswer) ==
    [options |-> <<"a", "b">>, correctAnswer |-> correctAnswer]

sampleLesson(correctAnswer) == [questions |-> <<sampleQuestion(correctAnswer)>>]

sampleDoc(id, title, description, lessons) ==
    [id |-> id, createdAt |-> 0, title |-> title, description |-> description,
     lessons |-> lessons]

\* documents the model's output parses to, or a client submits
SampleDocs ==
    { sampleDoc(0, "T1", "D1", LessonsArray(<<sampleLesson(0)>>)),
      sampleDoc(0, "T  2/b", Undef, LessonsArray(<<>>)),
      sampleDoc(2, "T1", "D1", LessonsArray(<<sampleLesson(1)>>)),
      sampleDoc(0, "T1", "D1", LessonsArray(<<sampleLesson(5)>>)),
      sampleDoc(0, "T1", "D1", NoLessons),
      sampleDoc(0, "T1", "D1", LessonsString),
      sampleDoc(0, "", "D1", LessonsArray(<<>>)),
      sampleDoc(0, Undef, "D1", LessonsArray(<<>>)) }

\* a request body without the course field
NoCourse == [none |-> TRUE]

\* course ids a request can name: those Date.now() gives, and one more
CourseIds == 1..(MaxClock + 1)

\* the row with id courseId, in a set: .eq('id', courseId)
rowsOf(courseId) == {row \in courses : row.id = courseId}

\* .single() on one row
theRow(courseId) == CHOOSE row \in rowsOf(courseId) : TRUE

\* courseData.id = courseId; courseData.createdAt = new Date().toISOString()
stamped(courseData, courseId, now) ==
    [courseData EXCEPT !.id = courseId, !.createdAt = now]

\* the row the creation handlers insert
insertedRow(courseData, courseId, now) ==
    [id |-> courseId, title |-> courseData.title, description |-> courseData.description,
     created_at |-> now, updated_at |-> now,
     course_data |-> stamped(courseData, courseId, now)]

\* the store refuses the inserted row: primary key, or title not null
insertRefused(courseData, courseId) ==
    rowsOf(courseId) # {} \/ courseData.title = Undef

\* the row as the update handler would leave it if it kept the fields of
\* the stored document that the submitted one lacks
updatedRowMerging(row, course, now) ==
    [row EXCEPT !.title = course.title, !.description = orEmpty(course.description),
                !.updated_at = now,
                !.course_data = [course EXCEPT
                    !.description = IF @ = Undef THEN row.course_data.description ELSE @]]

\* the row after the update handler's update
updatedRow(row, course, now) ==
    [row EXCEPT !.title = course.title, !.description = orEmpty(course.description),
                !.updated_at = now, !.course_data = course]

\* res.status(code).json(...) of a store endpoint; replaced is the document
\* an update has overwritten
answer(op, courseId, course, status, error, body) ==
    [op |-> op, courseId |-> courseId, course |-> course, status |-> status,
     error |-> error, body |-> body, replaced |-> NoCourse]

NoAnswer == answer("none", 0, NoCourse, 0, "none", NoCourse)

Calls == 1..MaxCalls

IdleCall ==
    [pc |-> "idle", courseId |-> 0, course |-> NoCourse, archive |-> {},
     status |-> 0, error |-> "none", after |-> {}, filename |-> <<>>]

(***************************************************************************)
(* The course editor (AdminViewer): the options and the correct answer of  *)
(* one question of the course under edit.                                  *)
(***************************************************************************)
\* texts an option can be given
OptionTexts == {"a", "b", "New Option"}

\* a question as addQuestion makes it, cut to two options
NewQuestion == [options |-> <<"a", "b">>, correctAnswer |-> 0]

NoEdit == [op |-> "none", index |-> 0, was |-> 0]

\* no save request is in flight
NoSave == [none |-> TRUE]

\* the editor's copy as it would be if the effect kept the course it is given
openedShared(course) == [value |-> course, shares |-> TRUE]

\* useEffect: setEditedCourse(JSON.parse(JSON.stringify(course))): an equal
\* question in an object of its own
opened(course) == [value |-> course, shares |-> FALSE]

\* options.splice(optionIndex, 1), optionIndex counted from 0
splice(options, optionIndex) ==
    [i \in 1..(Len(options) - 1) |->
        IF i <= optionIndex THEN options[i] ELSE options[i + 1]]

\* removeQuestionOption as it would be without the adjustment of correctAnswer
removedUnadjusted(q, optionIndex) ==
    IF Len(q.options) > 1 THEN [q EXCEPT !.options = splice(q.options, optionIndex)]
    ELSE q

\* the question after removeQuestionOption(lessonIndex, questionIndex, optionIndex)
removed(q, optionIndex) ==
    IF Len(q.options) > 1
    THEN LET options == splice(q.options, optionIndex)
         IN  [q EXCEPT !.options = options,
                       !.correctAnswer = IF @ >= Len(options) THEN Len(options) - 1 ELSE @]
    ELSE q

\* the indices the editor renders a row of controls for
OptionIndices(q) == 0..(Len(q.options) - 1)

(***************************************************************************)
(* POST /api/upload up to the prompt: multer stores each file of the       *)
(* request under uploads/ by its original name, the handler moves it into  *)
(* uploads/<folderId or default>/, and readMarkdownFiles reads that folder.*)
(* A file name is <<base, extension>>; the content of a file is known by   *)
(* the request that sent it.                                               *)
(***************************************************************************)
FileNames == {<<"a", ".md">>, <<"b", ".md">>, <<"c", ".txt">>}

\* req.body.folderId, "" when the request has none
FolderIds == {"", "folder-1"}

\* req.body.folderId || 'default'
folderOf(folderId) == IF folderId = "" THEN "default" ELSE folderId

\* file.endsWith('.md')
endsWithMd(name) == name[Len(name)] = ".md"

uploadedFile(folder, name, of) == [folder |-> folder, name |-> name, of |-> of]

\* fs.rename(file.path, destPath) for each file of the request: a file of
\* that name in the folder is replaced
moved(tree, folder, names, of) ==
    {f \in tree : ~(f.folder = folder /\ f.name \in names)}
        \cup {uploadedFile(folder, name, of) : name \in names}

\* readMarkdownFiles(uploadDir): every .md file in the folder
readMarkdownFiles(tree, folder) ==
    {f \in tree : f.folder = folder /\ endsWithMd(f.name)}

NotYet == [threw |-> FALSE, value |-> <<"not yet">>]

extractVars == <<raw, extracted>>
createVars == <<reqs, courses, debugFiles, grokApiKey, clock>>
exportVars == <<exportCourse, rendered>>
pageVars == <<state, dom, selectedAnswers, showExplanations, codeSolutions, lastClick, clicks>>
storeVars == <<lastAnswer, ops, exportCalls, exportsDir>>
vars == <<raw, extracted, reqs, courses, debugFiles, grokApiKey, clock, exportCourse, rendered,
          state, dom, selectedAnswers, showExplanations, codeSolutions, lastClick, clicks,
          lastAnswer, ops, exportCalls, exportsDir, editedQuestion, lastEdit,
          selectedCourse, sharesCourse, saving, editsLeft, uploads, prompts>>
uploadVars == <<uploads, prompts>>
editorVars == <<editedQuestion, lastEdit, selectedCourse, sharesCourse, saving, editsLeft>>
\* what the steps of one part of the program leave alone
notExtractVars == <<createVars, exportVars, pageVars, storeVars, editorVars, uploadVars>>
notCreateVars == <<extractVars, exportVars, pageVars, storeVars, editorVars, uploadVars>>
notExportVars == <<extractVars, reqs, courses, debugFiles, grokApiKey, pageVars, storeVars,
                   editorVars, uploadVars>>
notPageVars == <<extractVars, createVars, exportVars, storeVars, editorVars, uploadVars>>
notStoreVars == <<extractVars, reqs, debugFiles, grokApiKey, exportVars, pageVars, editorVars, uploadVars>>
notEditorVars == <<extractVars, createVars, exportVars, pageVars, storeVars, uploadVars>>
notSaveVars == <<extractVars, reqs, debugFiles, grokApiKey, clock, exportVars, pageVars,
                 exportCalls, exportsDir, uploadVars>>
notUploadVars == <<extractVars, createVars, exportVars, pageVars, storeVars, editorVars>>

Reqs == 1..MaxReqs

None == <<"none">>

IdleReq ==
    [pc |-> "idle", content |-> None, jsonContent |-> None,
     courseId |-> 0, status |-> 0, error |-> "none", grokCalls |-> 0]

NoDebugFiles == [rawResponse |-> None, jsonResponse |-> None, errorSummary |-> None]

(***************************************************************************)
(* extractAndParseJSON applied to one reply.                               *)
(***************************************************************************)
\* a bare object between prose, a truncated object after prose, or an
\* object in a fenced block (plain or labelled json) between prose
\* data of the remote response as far as extraction could read it:
\* choices[0].finish_reason, 'length' when the token budget cut the output
Stopped == [finish_reason |-> "stop"]
CutOff == [finish_reason |-> "length"]


InitExtract ==
    /\ \E pre \in Prose, post \in Prose :
          \/ \E o \in Objects : raw = pre \o o \o post
          \/ \E t \in Truncated : raw = pre \o t
          \/ \E o \in Objects, opening \in {Fence, FenceJson} :
                raw = pre \o opening \o <<NL>> \o o \o <<NL>> \o Fence \o post
    /\ extracted = NotYet
    /\ reqs = [r \in Reqs |-> IdleReq]
    /\ courses = {}
    /\ debugFiles = NoDebugFiles
    /\ grokApiKey = TRUE
    /\ clock = 1
    /\ exportCourse = PlainCourse
    /\ rendered = <<>>
    /\ state = FreshState
    /\ dom = FreshDom(PlainCourse)
    /\ selectedAnswers = NoEntries
    /\ showExplanations = NoEntries
    /\ codeSolutions = NoEntries
    /\ lastClick = NoClick
    /\ clicks = 0
    /\ lastAnswer = NoAnswer
    /\ ops = 0
    /\ exportCalls = [c \in Calls |-> IdleCall]
    /\ exportsDir = {}
    /\ editedQuestion = NewQuestion
    /\ lastEdit = NoEdit
    /\ selectedCourse = NewQuestion
    /\ sharesCourse = FALSE
    /\ saving = NoSave
    /\ editsLeft = 0
    /\ uploads = {}
    /\ prompts = <<>>

\* extraction run on the replies made of fenced blocks
InitFence ==
    /\ \/ \E pre \in FenceProse, post \in FenceProse, r \in BlockRuns(MaxBlocks) :
             raw = pre \o r \o post
       \/ raw \in BlankReplies
    /\ extracted = NotYet
    /\ reqs = [r \in Reqs |-> IdleReq]
    /\ courses = {}
    /\ debugFiles = NoDebugFiles
    /\ grokApiKey = TRUE
    /\ clock = 1
    /\ exportCourse = PlainCourse
    /\ rendered = <<>>
    /\ state = FreshState
    /\ dom = FreshDom(PlainCourse)
    /\ selectedAnswers = NoEntries
    /\ showExplanations = NoEntries
    /\ codeSolutions = NoEntries
    /\ lastClick = NoClick
    /\ clicks = 0
    /\ lastAnswer = NoAnswer
    /\ ops = 0
    /\ exportCalls = [c \in Calls |-> IdleCall]
    /\ exportsDir = {}
    /\ editedQuestion = NewQuestion
    /\ lastEdit = NoEdit
    /\ selectedCourse = NewQuestion
    /\ sharesCourse = FALSE
    /\ saving = NoSave
    /\ editsLeft = 0
    /\ uploads = {}
    /\ prompts = <<>>

Extract ==
    /\ extracted = NotYet
    /\ extracted' = extractAndParseJSON(raw, "data")
    /\ UNCHANGED <<raw, notExtractVars>>

(***************************************************************************)
(* Course creation: POST /api/upload and POST /api/create-course, with     *)
(* generateCourseContent inlined.  A request advances from one await to    *)
(* the next in one step.                                                   *)
(***************************************************************************)
\* what the remote model may answer with
SampleReplies ==
    { <<"{">> \o KeyA \o <<":", "1", "}">>,
      <<"a">> \o FenceJson \o <<NL, "{", "}", NL>> \o Fence \o <<"}">>,
      <<"{">> \o KeyA \o <<":", "{", "}", ",">>,
      <<"{">> \o KeyA \o <<":", QUOTE, "}">>,
      <<"{">> \o KeyA \o <<":", "{">> \o KeyA,
      <<"a">>,
      <<SP>>,
      <<"1">> }

InitCreate ==
    /\ raw = <<>>
    /\ extracted = NotYet
    /\ reqs = [r \in Reqs |-> IdleReq]
    /\ courses = {}
    /\ debugFiles = NoDebugFiles
    /\ grokApiKey \in BOOLEAN
    /\ clock = 1
    /\ exportCourse = PlainCourse
    /\ rendered = <<>>
    /\ state = FreshState
    /\ dom = FreshDom(PlainCourse)
    /\ selectedAnswers = NoEntries
    /\ showExplanations = NoEntries
    /\ codeSolutions = NoEntries
    /\ lastClick = NoClick
    /\ clicks = 0
    /\ lastAnswer = NoAnswer
    /\ ops = 0
    /\ exportCalls = [c \in Calls |-> IdleCall]
    /\ exportsDir = {}
    /\ editedQuestion = NewQuestion
    /\ lastEdit = NoEdit
    /\ selectedCourse = NewQuestion
    /\ sharesCourse = FALSE
    /\ saving = NoSave
    /\ editsLeft = 0
    /\ uploads = {}
    /\ prompts = <<>>

\* res.status(code).json({ error }) or res.json({ courseId, course })
respond(q, code, err) == [q EXCEPT !.pc = "done", !.status = code, !.error = err]

\* generateCourseContent up to its first await, the fetch
startGeneration(q) ==
    IF ~grokApiKey THEN respond(q, 500, "NoApiKey")
    ELSE [q EXCEPT !.pc = "fetching", !.grokCalls = @ + 1]

\* POST /api/upload up to the fetch: the 400 guards on the uploaded files
ReceiveUpload(r) ==
    /\ reqs[r].pc = "idle"
    /\ \E input \in {"NoFilesUploaded", "NoMarkdownFiles", "markdown"} :
          reqs' = [reqs EXCEPT ![r] =
                IF input = "markdown" THEN startGeneration(@)
                ELSE respond(@, 400, input)]
    /\ UNCHANGED <<courses, debugFiles, grokApiKey, clock, notCreateVars>>

\* POST /api/create-course up to the fetch: the 400 guards on folderPath
ReceiveCreateCourse(r) ==
    /\ reqs[r].pc = "idle"
    /\ \E input \in {"FolderPathRequired", "NoMarkdownFilesInFolder", "markdown"} :
          reqs' = [reqs EXCEPT ![r] =
                IF input = "markdown" THEN startGeneration(@)
                ELSE respond(@, 400, input)]
    /\ UNCHANGED <<courses, debugFiles, grokApiKey, clock, notCreateVars>>

\* the fetch as it would settle if a failed remote call were issued once more
FetchReturnsRetrying(r) ==
    /\ reqs[r].pc = "fetching"
    /\ \/ \E err \in {"FetchFailed", "GrokApiError", "EmptyResponse", "NoTextContent"} :
             reqs' = [reqs EXCEPT ![r] =
                IF @.grokCalls < 2 THEN [@ EXCEPT !.grokCalls = @ + 1]
                ELSE respond(@, 500, err)]
       \/ \E t \in SampleReplies :
             reqs' = [reqs EXCEPT ![r] = [@ EXCEPT !.pc = "savingRaw", !.content = t]]
    /\ UNCHANGED <<courses, debugFiles, grokApiKey, clock, notCreateVars>>

\* the fetch settles: rejected, a non-2xx status, a body without choices, a
\* choice without text, or a text
FetchReturns(r) ==
    /\ reqs[r].pc = "fetching"
    /\ \/ \E err \in {"FetchFailed", "GrokApiError", "EmptyResponse", "NoTextContent"} :
             reqs' = [reqs EXCEPT ![r] = respond(@, 500, err)]
       \/ \E t \in SampleReplies :
             reqs' = [reqs EXCEPT ![r] = [@ EXCEPT !.pc = "savingRaw", !.content = t]]
    /\ UNCHANGED <<courses, debugFiles, grokApiKey, clock, notCreateVars>>

\* the handler as it would be if a candidate that does not parse were kept
\* and stored all the same
SaveRawKeepUnparsed(r) ==
    /\ reqs[r].pc = "savingRaw"
    /\ debugFiles' = [debugFiles EXCEPT !.rawResponse = reqs[r].content]
    /\ LET x == extractAndParseJSON(reqs[r].content, "data")
           q == [reqs[r] EXCEPT !.jsonContent = x.value]
       IN  reqs' = [reqs EXCEPT ![r] =
             IF x.threw THEN respond(reqs[r], 500, "NoJsonContent")
             ELSE [q EXCEPT !.pc = "inserting", !.courseId = clock]]
    /\ UNCHANGED <<courses, grokApiKey, clock, notCreateVars>>

\* the raw response is written; then extraction and JSON.parse run, and on
\* success the handler assigns the id and reaches the insert
SaveRaw(r) ==
    /\ reqs[r].pc = "savingRaw"
    /\ debugFiles' = [debugFiles EXCEPT !.rawResponse = reqs[r].content]
    /\ LET x == extractAndParseJSON(reqs[r].content, "data")
           q == [reqs[r] EXCEPT !.jsonContent = x.value]
       IN  reqs' = [reqs EXCEPT ![r] =
             IF x.threw THEN respond(reqs[r], 500, "NoJsonContent")
             ELSE IF ~JSONparse(x.value) THEN [q EXCEPT !.pc = "savingJson"]
             ELSE IF x.value[1] # "{" THEN respond(q, 500, "TypeError")
             ELSE [q EXCEPT !.pc = "inserting", !.courseId = clock]]
    /\ UNCHANGED <<courses, grokApiKey, clock, notCreateVars>>

\* the error the parse-failure handler ends with: building the summary reads
\* message.stop_reason, and no binding named message is in scope there
parseFailureError == "ReferenceError"

\* the candidate is written; the summary is not (its argument throws)
SaveJson(r) ==
    /\ reqs[r].pc = "savingJson"
    /\ debugFiles' = [debugFiles EXCEPT !.jsonResponse = reqs[r].jsonContent]
    /\ reqs' = [reqs EXCEPT ![r] = respond(@, 500, parseFailureError)]
    /\ UNCHANGED <<courses, grokApiKey, clock, notCreateVars>>

\* the insert settles: an error (always, when the id is taken) or the row
Insert(r) ==
    /\ reqs[r].pc = "inserting"
    /\ \/ /\ reqs' = [reqs EXCEPT ![r] = respond(@, 500, "DbError")]
          /\ UNCHANGED courses
       \/ /\ \A c \in courses : c.id # reqs[r].courseId
          /\ courses' = courses \cup
                {[id |-> reqs[r].courseId, course_data |-> reqs[r].jsonContent]}
          /\ reqs' = [reqs EXCEPT ![r] = respond(@, 200, "none")]
    /\ UNCHANGED <<debugFiles, grokApiKey, clock, notCreateVars>>

Tick ==
    /\ clock < MaxClock
    /\ clock' = clock + 1
    /\ UNCHANGED <<reqs, courses, debugFiles, grokApiKey, extractVars, exportVars, pageVars,
                   storeVars, editorVars, uploadVars>>

(***************************************************************************)
(* GET /api/export/:courseId: the call of generateStandaloneApp on the     *)
(* course read from the store.                                             *)
(***************************************************************************)
InitExport ==
    /\ raw = <<>>
    /\ extracted = NotYet
    /\ reqs = [r \in Reqs |-> IdleReq]
    /\ courses = {}
    /\ debugFiles = NoDebugFiles
    /\ grokApiKey = TRUE
    /\ clock = 1
    /\ exportCourse \in ExportCourses
    /\ rendered = <<>>
    /\ state = FreshState
    /\ dom = FreshDom(PlainCourse)
    /\ selectedAnswers = NoEntries
    /\ showExplanations = NoEntries
    /\ codeSolutions = NoEntries
    /\ lastClick = NoClick
    /\ clicks = 0
    /\ lastAnswer = NoAnswer
    /\ ops = 0
    /\ exportCalls = [c \in Calls |-> IdleCall]
    /\ exportsDir = {}
    /\ editedQuestion = NewQuestion
    /\ lastEdit = NoEdit
    /\ selectedCourse = NewQuestion
    /\ sharesCourse = FALSE
    /\ saving = NoSave
    /\ editsLeft = 0
    /\ uploads = {}
    /\ prompts = <<>>

RenderExport ==
    /\ Len(rendered) < MaxExports
    /\ rendered' = Append(rendered,
                          [at |-> clock, html |-> generateStandaloneApp(exportCourse)])
    /\ UNCHANGED <<exportCourse, clock, notExportVars>>

(***************************************************************************)
(* The reader's clicks on the course page.  Each click runs the handler of *)
(* the exported script and the handler of the live viewer.                 *)
(***************************************************************************)
InitPage ==
    /\ raw = <<>>
    /\ extracted = NotYet
    /\ reqs = [r \in Reqs |-> IdleReq]
    /\ courses = {}
    /\ debugFiles = NoDebugFiles
    /\ grokApiKey = TRUE
    /\ clock = 1
    /\ exportCourse \in PageCourses
    /\ rendered = <<>>
    /\ state = FreshState
    /\ dom = FreshDom(exportCourse)
    /\ selectedAnswers = NoEntries
    /\ showExplanations = NoEntries
    /\ codeSolutions = NoEntries
    /\ lastClick = NoClick
    /\ clicks = 0
    /\ lastAnswer = NoAnswer
    /\ ops = 0
    /\ exportCalls = [c \in Calls |-> IdleCall]
    /\ exportsDir = {}
    /\ editedQuestion = NewQuestion
    /\ lastEdit = NoEdit
    /\ selectedCourse = NewQuestion
    /\ sharesCourse = FALSE
    /\ saving = NoSave
    /\ editsLeft = 0
    /\ uploads = {}
    /\ prompts = <<>>

\* a click on option answerIndex of question p
handleAnswerSelect(p, answerIndex) ==
    /\ clicks < MaxClicks
    /\ LET questionId == domQuestionId(exportCourse, p)
           questionElement == firstQuestion(exportCourse, questionId)
       IN  /\ state' = [state EXCEPT !.selectedAnswers = put(@, questionId, answerIndex)]
           /\ dom' = [dom EXCEPT
                        !.optionClasses[questionElement] =
                            [i \in DOMAIN @ |->
                                IF i = answerIndex + 1 THEN @[i] \cup {"selected"}
                                ELSE @[i] \ {"selected"}],
                        !.checkBtn[questionElement] = TRUE]
    /\ selectedAnswers' = put(selectedAnswers, uniqueQuestionId(exportCourse, p), answerIndex)
    /\ lastClick' = [kind |-> "select", at |-> p]
    /\ clicks' = clicks + 1
    /\ UNCHANGED <<showExplanations, codeSolutions, notPageVars>>

\* a click on the check button of question p, where both pages show it
checkAnswer(p) ==
    /\ clicks < MaxClicks
    /\ dom.checkBtn[p]
    /\ liveCheckBtn(exportCourse, p)
    /\ LET questionId == domQuestionId(exportCourse, p)
           questionElement == firstQuestion(exportCourse, questionId)
           correctAnswer == questionsOf(exportCourse)[p].q.correctAnswer
       IN  /\ state' = [state EXCEPT !.showExplanations = put(@, questionId, TRUE)]
           /\ dom' = [dom EXCEPT
                        !.optionClasses[questionElement] =
                            [i \in DOMAIN @ |->
                                LET kept == @[i] \ {"correct", "incorrect"}
                                IN  IF i - 1 = correctAnswer THEN kept \cup {"correct"}
                                    ELSE IF holds(state.selectedAnswers, questionId, i - 1)
                                         THEN kept \cup {"incorrect"}
                                    ELSE kept],
                        !.explanation[questionElement] = TRUE]
    /\ showExplanations' = put(showExplanations, uniqueQuestionId(exportCourse, p), TRUE)
    /\ lastClick' = [kind |-> "check", at |-> p]
    /\ clicks' = clicks + 1
    /\ UNCHANGED <<selectedAnswers, codeSolutions, notPageVars>>

\* a click on the solution button of exercise x
toggleCodeSolution(x) ==
    /\ clicks < MaxClicks
    /\ LET exerciseId == domExerciseId(exportCourse, x)
           shown == ~truthy(state.codeSolutions, exerciseId)
       IN  /\ state' = [state EXCEPT !.codeSolutions = put(@, exerciseId, shown)]
           /\ dom' = [dom EXCEPT
                        !.solution[firstExercise(exportCourse, exerciseId)] = shown,
                        !.solutionBtn[x] = IF shown THEN "Hide Solution" ELSE "Show Solution"]
    /\ codeSolutions' = put(codeSolutions, exerciseKey(exportCourse, x),
                            ~truthy(codeSolutions, exerciseKey(exportCourse, x)))
    /\ lastClick' = [kind |-> "toggle", at |-> x]
    /\ clicks' = clicks + 1
    /\ UNCHANGED <<selectedAnswers, showExplanations, notPageVars>>

(***************************************************************************)
(* The store endpoints.  Each of create (from the point where the model's  *)
(* output has been parsed), get and update makes one request to the store. *)
(***************************************************************************)
\* rows a store can hold when the run starts: made by the creation handlers
InitialRows ==
    { insertedRow(sampleDoc(0, "T1", "D1", LessonsArray(<<sampleLesson(0)>>)), 1, 1),
      insertedRow(sampleDoc(0, "T  2/b", "D1", LessonsArray(<<>>)), 2, 1) }

InitStore ==
    /\ raw = <<>>
    /\ extracted = NotYet
    /\ reqs = [r \in Reqs |-> IdleReq]
    /\ courses = {}
    /\ debugFiles = NoDebugFiles
    /\ grokApiKey = TRUE
    /\ clock = 1
    /\ exportCourse = PlainCourse
    /\ rendered = <<>>
    /\ state = FreshState
    /\ dom = FreshDom(PlainCourse)
    /\ selectedAnswers = NoEntries
    /\ showExplanations = NoEntries
    /\ codeSolutions = NoEntries
    /\ lastClick = NoClick
    /\ clicks = 0
    /\ lastAnswer = NoAnswer
    /\ ops = 0
    /\ exportCalls = [c \in Calls |-> IdleCall]
    /\ exportsDir = {}
    /\ editedQuestion = NewQuestion
    /\ lastEdit = NoEdit
    /\ selectedCourse = NewQuestion
    /\ sharesCourse = FALSE
    /\ saving = NoSave
    /\ editsLeft = 0
    /\ uploads = {}
    /\ prompts = <<>>

\* POST /api/upload and POST /api/create-course once generateCourseContent
\* has returned courseData
CreateCourse(courseData) ==
    /\ ops < MaxOps
    /\ LET courseId == clock
           row == insertedRow(courseData, courseId, clock)
       IN  IF insertRefused(courseData, courseId)
           THEN /\ courses' = courses
                /\ lastAnswer' = answer("create", courseId, courseData, 500, "DbError", NoCourse)
           ELSE /\ courses' = courses \cup {row}
                /\ lastAnswer' = answer("create", courseId, courseData, 200, "none",
                                        row.course_data)
    /\ ops' = ops + 1
    /\ UNCHANGED <<clock, exportCalls, exportsDir, notStoreVars>>

\* GET /api/course/:courseId
GetCourse(courseId) ==
    /\ ops < MaxOps
    /\ lastAnswer' =
          IF rowsOf(courseId) = {}
          THEN answer("get", courseId, NoCourse, 404, "Course not found", NoCourse)
          ELSE answer("get", courseId, NoCourse, 200, "none", theRow(courseId).course_data)
    /\ ops' = ops + 1
    /\ UNCHANGED <<courses, clock, exportCalls, exportsDir, notStoreVars>>

\* PUT /api/course/:courseId as it would be if the update of an id that is not
\* in the table inserted the row
UpdateCourseUpserting(courseId, course) ==
    /\ ops < MaxOps
    /\ IF course = NoCourse
       THEN /\ courses' = courses
            /\ lastAnswer' = answer("update", courseId, course, 400,
                                    "Course data is required", NoCourse)
       ELSE IF falsyText(course.title)
       THEN /\ courses' = courses
            /\ lastAnswer' = answer("update", courseId, course, 400,
                                    "Course title is required", NoCourse)
       ELSE LET old == IF rowsOf(courseId) = {} THEN insertedRow(course, courseId, clock)
                       ELSE theRow(courseId)
                row == updatedRow(old, course, clock)
            IN  /\ courses' = (courses \ rowsOf(courseId)) \cup {row}
                /\ lastAnswer' = [answer("update", courseId, course, 200, "none",
                                         row.course_data)
                                    EXCEPT !.replaced = old.course_data]
    /\ ops' = ops + 1
    /\ UNCHANGED <<clock, exportCalls, exportsDir, notStoreVars>>

\* PUT /api/course/:courseId
UpdateCourse(courseId, course) ==
    /\ ops < MaxOps
    /\ IF course = NoCourse
       THEN /\ courses' = courses
            /\ lastAnswer' = answer("update", courseId, course, 400,
                                    "Course data is required", NoCourse)
       ELSE IF falsyText(course.title)
       THEN /\ courses' = courses
            /\ lastAnswer' = answer("update", courseId, course, 400,
                                    "Course title is required", NoCourse)
       ELSE IF rowsOf(courseId) = {}
       THEN /\ courses' = courses
            /\ lastAnswer' = answer("update", courseId, course, 404,
                                    "Course not found", NoCourse)
       ELSE LET row == updatedRow(theRow(courseId), course, clock)
            IN  /\ courses' = (courses \ rowsOf(courseId)) \cup {row}
                /\ lastAnswer' = [answer("update", courseId, course, 200, "none",
                                         row.course_data)
                                    EXCEPT !.replaced = theRow(courseId).course_data]
    /\ ops' = ops + 1
    /\ UNCHANGED <<clock, exportCalls, exportsDir, notStoreVars>>

(***************************************************************************)
(* GET /api/export/:courseId, step by step between its awaits.  A path is  *)
(* a sequence of names, a name a text.  An entry of exportsDir is a        *)
(* directory, the index.html rendered from a course (of: the id of the     *)
(* request that wrote it), or a zip file with the entries it holds.  A     *)
(* request remembers the requests that had ended when it arrived (after).  *)
(***************************************************************************)
courseName(courseId) == <<"course-">> \o idxText(courseId)

\* path.join(__dirname, 'exports', courseId) as it would be if every export
\* used one directory
exportDirShared(courseId) == << <<"exports">> >>

\* path.join(__dirname, 'exports', courseId)
exportDir(courseId) == << <<"exports">>, courseName(courseId) >>

\* path.join(exportDir, 'index.html')
indexPath(courseId) == exportDir(courseId) \o << <<"index.html">> >>

\* path.join(__dirname, 'exports', courseId + '.zip')
zipPath(courseId) == << <<"exports">>, courseName(courseId) \o <<".zip">> >>

dirEntry(path) == [path |-> path, kind |-> "dir", of |-> 0, course |-> NoCourse, holds |-> {}]

htmlEntry(path, courseId, course) ==
    [path |-> path, kind |-> "file", of |-> courseId, course |-> course, holds |-> {}]

zipEntry(path, entries) ==
    [path |-> path, kind |-> "zip", of |-> 0, course |-> NoCourse, holds |-> entries]

\* path lies under the directory dir
under(dir, path) == Len(path) > Len(dir) /\ SubSeq(path, 1, Len(dir)) = dir

\* the tree without what stands at path
without(tree, path) == {e \in tree : e.path # path}

\* fs.mkdir(path, { recursive: true })
mkdir(tree, path) == without(tree, path) \cup {dirEntry(path)}

\* fs.writeFile(path, html)
writeFile(tree, path, courseId, course) ==
    without(tree, path) \cup {htmlEntry(path, courseId, course)}

\* archive.directory(dir, false): the files under dir, named from dir
directory(tree, dir) ==
    { [name |-> SubSeq(e.path, Len(dir) + 1, Len(e.path)), kind |-> e.kind,
       of |-> e.of, course |-> e.course] : e \in {f \in tree : f.kind # "dir" /\ under(dir, f.path)} }

\* generateStandaloneApp throws: lessons is there and has no map method
renderThrows(course) == course.lessons.kind = "string"

\* the response of an export request
\* the characters of a title of the sample documents
chars(text) ==
    CASE text = "T1" -> <<"T", "1">>
      [] text = "T  2/b" -> <<"T", SP, SP, "2", "/", "b">>
      [] OTHER -> <<>>

\* s.replace(/\s+/g, '-') from position i on
RECURSIVE replaceSpaceRuns(_, _)
replaceSpaceRuns(s, i) ==
    IF i > Len(s) THEN <<>>
    ELSE IF s[i] \in WhiteSpace THEN <<"-">> \o replaceSpaceRuns(s, wsRunEnd(s, i))
    ELSE <<s[i]>> \o replaceSpaceRuns(s, i + 1)

ZipExtension == <<".", "z", "i", "p">>

\* the name res.download gives the archive
downloadName(title) == replaceSpaceRuns(chars(title), 1) \o ZipExtension

finish(call, status, error) == [call EXCEPT !.pc = "done", !.status = status, !.error = error]

\* the request arrives and the row is selected
ExportLoad(c, courseId) ==
    /\ exportCalls[c].pc = "idle"
    /\ IF rowsOf(courseId) = {}
       THEN /\ exportCalls' = [exportCalls EXCEPT ![c] =
                   finish([@ EXCEPT !.courseId = courseId], 404, "Course not found")]
            /\ lastAnswer' = answer("export", courseId, NoCourse, 404, "Course not found",
                                    NoCourse)
       ELSE /\ exportCalls' = [exportCalls EXCEPT ![c] =
                   [@ EXCEPT !.pc = "loaded", !.courseId = courseId,
                             !.course = theRow(courseId).course_data,
                             !.after = {d \in Calls : exportCalls[d].pc = "done"}]]
            /\ UNCHANGED lastAnswer
    /\ UNCHANGED <<courses, clock, ops, exportsDir, notStoreVars>>

\* the directory is made, the document rendered and written
ExportWrite(c) ==
    /\ exportCalls[c].pc = "loaded"
    /\ LET call == exportCalls[c]
           made == mkdir(exportsDir, exportDir(call.courseId))
       IN  IF renderThrows(call.course)
           THEN /\ exportsDir' = made
                /\ exportCalls' = [exportCalls EXCEPT ![c] = finish(@, 500, "TypeError")]
                /\ lastAnswer' = answer("export", call.courseId, NoCourse, 500, "TypeError",
                                        NoCourse)
           ELSE /\ exportsDir' = writeFile(made, indexPath(call.courseId), call.courseId,
                                           call.course)
                /\ exportCalls' = [exportCalls EXCEPT ![c] = [@ EXCEPT !.pc = "written"]]
                /\ UNCHANGED lastAnswer
    /\ UNCHANGED <<courses, clock, ops, notStoreVars>>

\* the archive of the directory is written to the zip path, or the archiver
\* fails and the promise the handler returned is rejected: no response
ExportZip(c) ==
    /\ exportCalls[c].pc = "written"
    /\ LET call == exportCalls[c]
           zip == zipPath(call.courseId)
       IN  \/ /\ exportsDir' = without(exportsDir, zip) \cup
                     {zipEntry(zip, directory(exportsDir, exportDir(call.courseId)))}
              /\ exportCalls' = [exportCalls EXCEPT ![c] = [@ EXCEPT !.pc = "zipped"]]
           \/ /\ exportsDir' = without(exportsDir, zip) \cup {zipEntry(zip, {})}
              /\ exportCalls' = [exportCalls EXCEPT ![c] = finish(@, 0, "ArchiveError")]
    /\ UNCHANGED <<courses, clock, ops, lastAnswer, notStoreVars>>

\* res.download: the zip file is sent and then unlinked, or sending fails
\* (always, when the file is gone) and the promise is rejected
ExportDownload(c) ==
    /\ exportCalls[c].pc = "zipped"
    /\ LET call == exportCalls[c]
           zips == {e \in exportsDir : e.path = zipPath(call.courseId)}
       IN  \/ /\ zips # {}
              /\ exportCalls' = [exportCalls EXCEPT ![c] =
                     finish([@ EXCEPT !.archive = (CHOOSE e \in zips : TRUE).holds,
                                      !.filename = downloadName(call.course.title)],
                            200, "none")]
              /\ exportsDir' = exportsDir \ zips
              /\ lastAnswer' = answer("export", call.courseId, NoCourse, 200, "none", NoCourse)
           \/ /\ exportCalls' = [exportCalls EXCEPT ![c] = finish(@, 0, "DownloadError")]
              /\ UNCHANGED <<exportsDir, lastAnswer>>
    /\ UNCHANGED <<courses, clock, ops, notStoreVars>>

\* a store that holds courses, and room for one more request to it
InitArchive ==
    /\ raw = <<>>
    /\ extracted = NotYet
    /\ reqs = [r \in Reqs |-> IdleReq]
    /\ courses = InitialRows
    /\ debugFiles = NoDebugFiles
    /\ grokApiKey = TRUE
    /\ clock = 1
    /\ exportCourse = PlainCourse
    /\ rendered = <<>>
    /\ state = FreshState
    /\ dom = FreshDom(PlainCourse)
    /\ selectedAnswers = NoEntries
    /\ showExplanations = NoEntries
    /\ codeSolutions = NoEntries
    /\ lastClick = NoClick
    /\ clicks = 0
    /\ lastAnswer = NoAnswer
    /\ ops = MaxOps - 1
    /\ exportCalls = [c \in Calls |-> IdleCall]
    /\ exportsDir = {}
    /\ editedQuestion = NewQuestion
    /\ lastEdit = NoEdit
    /\ selectedCourse = NewQuestion
    /\ sharesCourse = FALSE
    /\ saving = NoSave
    /\ editsLeft = 0
    /\ uploads = {}
    /\ prompts = <<>>

(***************************************************************************)
(* The course editor's operations on the question, from its controls.      *)
(***************************************************************************)
\* a question loaded into the editor: one or two options and a correct
\* answer among them
InitEditor ==
    /\ raw = <<>>
    /\ extracted = NotYet
    /\ reqs = [r \in Reqs |-> IdleReq]
    /\ courses = {}
    /\ debugFiles = NoDebugFiles
    /\ grokApiKey = TRUE
    /\ clock = 1
    /\ exportCourse = PlainCourse
    /\ rendered = <<>>
    /\ state = FreshState
    /\ dom = FreshDom(PlainCourse)
    /\ selectedAnswers = NoEntries
    /\ showExplanations = NoEntries
    /\ codeSolutions = NoEntries
    /\ lastClick = NoClick
    /\ clicks = 0
    /\ lastAnswer = NoAnswer
    /\ ops = 0
    /\ exportCalls = [c \in Calls |-> IdleCall]
    /\ exportsDir = {}
    /\ \E options \in {<<"a">>, <<"a", "b">>} :
          \E correctAnswer \in 0..(Len(options) - 1) :
              selectedCourse = [options |-> options, correctAnswer |-> correctAnswer]
    /\ editedQuestion = opened(selectedCourse).value
    /\ sharesCourse = opened(selectedCourse).shares
    /\ lastEdit = NoEdit
    /\ saving = NoSave
    /\ editsLeft = 0 - 1
    /\ uploads = {}
    /\ prompts = <<>>

\* an edit assigns into the lessons of editedCourse in place: whoever holds
\* the same object sees the question q
assign(q) ==
    /\ editsLeft # 0
    /\ editedQuestion' = q
    /\ selectedCourse' = IF sharesCourse THEN q ELSE selectedCourse
    /\ editsLeft' = IF editsLeft > 0 THEN editsLeft - 1 ELSE editsLeft
    /\ UNCHANGED <<sharesCourse, saving>>

\* typing in the text input of option optionIndex
updateQuestionOption(optionIndex, value) ==
    /\ optionIndex \in OptionIndices(editedQuestion)
    /\ assign([editedQuestion EXCEPT !.options[optionIndex + 1] = value])
    /\ lastEdit' = [op |-> "edit", index |-> optionIndex, was |-> editedQuestion.correctAnswer]
    /\ UNCHANGED notEditorVars

\* the Add Option button
addQuestionOption ==
    /\ Len(editedQuestion.options) < MaxEditorOptions
    /\ assign([editedQuestion EXCEPT !.options = Append(@, "New Option")])
    /\ lastEdit' = [op |-> "add", index |-> Len(editedQuestion.options),
                    was |-> editedQuestion.correctAnswer]
    /\ UNCHANGED notEditorVars

\* the remove button of option optionIndex (disabled on the only option)
removeQuestionOption(optionIndex) ==
    /\ optionIndex \in OptionIndices(editedQuestion)
    /\ Len(editedQuestion.options) > 1
    /\ assign(removed(editedQuestion, optionIndex))
    /\ lastEdit' = [op |-> "remove", index |-> optionIndex,
                    was |-> editedQuestion.correctAnswer]
    /\ UNCHANGED notEditorVars

\* the radio button of option optionIndex:
\* updateQuestionField(lessonIdx, qIdx, 'correctAnswer', optIdx)
chooseCorrectAnswer(optionIndex) ==
    /\ optionIndex \in OptionIndices(editedQuestion)
    /\ assign([editedQuestion EXCEPT !.correctAnswer = optionIndex])
    /\ lastEdit' = [op |-> "choose", index |-> optionIndex,
                    was |-> editedQuestion.correctAnswer]
    /\ UNCHANGED notEditorVars

(***************************************************************************)
(* The course editor opened on a stored course, and its Save button.       *)
(***************************************************************************)
\* the row handleCourseEdit loads for the editor
openedRow == CHOOSE row \in InitialRows : row.course_data.lessons.items # <<>>

\* the course with q as its question
docOf(q) == [openedRow.course_data EXCEPT !.lessons.items[1].questions[1] = q]

\* the question of a course
questionOf(doc) == doc.lessons.items[1].questions[1]

InitSave ==
    /\ raw = <<>>
    /\ extracted = NotYet
    /\ reqs = [r \in Reqs |-> IdleReq]
    /\ courses = InitialRows
    /\ debugFiles = NoDebugFiles
    /\ grokApiKey = TRUE
    /\ clock = 1
    /\ exportCourse = PlainCourse
    /\ rendered = <<>>
    /\ state = FreshState
    /\ dom = FreshDom(PlainCourse)
    /\ selectedAnswers = NoEntries
    /\ showExplanations = NoEntries
    /\ codeSolutions = NoEntries
    /\ lastClick = NoClick
    /\ clicks = 0
    /\ lastAnswer = NoAnswer
    /\ ops = 0
    /\ exportCalls = [c \in Calls |-> IdleCall]
    /\ exportsDir = {}
    /\ selectedCourse = questionOf(openedRow.course_data)
    /\ editedQuestion = opened(selectedCourse).value
    /\ sharesCourse = opened(selectedCourse).shares
    /\ lastEdit = NoEdit
    /\ saving = NoSave
    /\ editsLeft = MaxEdits
    /\ uploads = {}
    /\ prompts = <<>>

\* handleSave up to its await: the request leaves with editedCourse as it is
handleSave ==
    /\ saving = NoSave
    /\ ops < MaxSaves
    /\ saving' = editedQuestion
    /\ ops' = ops + 1
    /\ UNCHANGED <<editedQuestion, lastEdit, selectedCourse, sharesCourse, editsLeft,
                   courses, lastAnswer, notSaveVars>>

\* the update is stored and answered; onCourseUpdated(editedCourse) makes the
\* parent merge the editor's object into selectedCourse, lessons and all, and
\* the effect opens the editor on the new course
SaveSucceeds ==
    /\ saving # NoSave
    /\ rowsOf(openedRow.id) # {}
    /\ LET course == docOf(saving)
           row == updatedRow(theRow(openedRow.id), course, clock)
       IN  /\ courses' = (courses \ rowsOf(openedRow.id)) \cup {row}
           /\ lastAnswer' = [answer("update", openedRow.id, course, 200, "none",
                                    row.course_data)
                               EXCEPT !.replaced = theRow(openedRow.id).course_data]
    /\ selectedCourse' = editedQuestion
    /\ editedQuestion' = opened(editedQuestion).value
    /\ sharesCourse' = opened(editedQuestion).shares
    /\ saving' = NoSave
    /\ UNCHANGED <<lastEdit, editsLeft, ops, notSaveVars>>

\* the request fails (no connection, or the store answers an error): the
\* catch branch shows the message
SaveFails ==
    /\ saving # NoSave
    /\ lastAnswer' = answer("update", openedRow.id, docOf(saving), 500, "DbError", NoCourse)
    /\ saving' = NoSave
    /\ UNCHANGED <<editedQuestion, lastEdit, selectedCourse, sharesCourse, editsLeft,
                   courses, ops, notSaveVars>>

(***************************************************************************)
(* Upload requests, one after the other.                                   *)
(***************************************************************************)
InitUpload ==
    /\ raw = <<>>
    /\ extracted = NotYet
    /\ reqs = [r \in Reqs |-> IdleReq]
    /\ courses = {}
    /\ debugFiles = NoDebugFiles
    /\ grokApiKey = TRUE
    /\ clock = 1
    /\ exportCourse = PlainCourse
    /\ rendered = <<>>
    /\ state = FreshState
    /\ dom = FreshDom(PlainCourse)
    /\ selectedAnswers = NoEntries
    /\ showExplanations = NoEntries
    /\ codeSolutions = NoEntries
    /\ lastClick = NoClick
    /\ clicks = 0
    /\ lastAnswer = NoAnswer
    /\ ops = 0
    /\ exportCalls = [c \in Calls |-> IdleCall]
    /\ exportsDir = {}
    /\ editedQuestion = NewQuestion
    /\ lastEdit = NoEdit
    /\ selectedCourse = NewQuestion
    /\ sharesCourse = FALSE
    /\ saving = NoSave
    /\ editsLeft = 0
    /\ uploads = {}
    /\ prompts = <<>>

\* the handler from the arrival of the files to the call of
\* generateCourseContent(markdownFiles)
Upload(names, folderId) ==
    /\ Len(prompts) < MaxUploads
    /\ names # {}
    /\ LET of == Len(prompts) + 1
           folder == folderOf(folderId)
           tree == moved(uploads, folder, names, of)
       IN  /\ uploads' = tree
           /\ prompts' = Append(prompts,
                 [folderId |-> folderId,
                  sent |-> {uploadedFile(folder, name, of) : name \in names},
                  read |-> readMarkdownFiles(tree, folder)])
    /\ UNCHANGED notUploadVars

(***************************************************************************)
(* Specifications.                                                         *)
(***************************************************************************)
NextExtract == Extract

SpecExtract == InitExtract /\ [][NextExtract]_vars

SpecFence == InitFence /\ [][NextExtract]_vars

NextCreate ==
    \/ \E r \in Reqs : ReceiveUpload(r)
    \/ \E r \in Reqs : ReceiveCreateCourse(r)
    \/ \E r \in Reqs : FetchReturns(r)
    \/ \E r \in Reqs : SaveRaw(r)
    \/ \E r \in Reqs : SaveJson(r)
    \/ \E r \in Reqs : Insert(r)
    \/ Tick

SpecCreate == InitCreate /\ [][NextCreate]_vars

NextExport ==
    \/ RenderExport
    \/ Tick

SpecExport == InitExport /\ [][NextExport]_vars

NextPage ==
    \/ \E p \in QuestionAt(exportCourse), answerIndex \in 0..1 : handleAnswerSelect(p, answerIndex)
    \/ \E p \in QuestionAt(exportCourse) : checkAnswer(p)
    \/ \E x \in ExerciseAt(exportCourse) : toggleCodeSolution(x)

SpecPage == InitPage /\ [][NextPage]_vars

NextStore ==
    \/ \E courseData \in SampleDocs : CreateCourse(courseData)
    \/ \E courseId \in CourseIds : GetCourse(courseId)
    \/ \E courseId \in CourseIds, course \in SampleDocs \cup {NoCourse} :
          UpdateCourse(courseId, course)
    \/ Tick

SpecStore == InitStore /\ [][NextStore]_vars

NextArchive ==
    \/ \E c \in Calls, courseId \in CourseIds : ExportLoad(c, courseId)
    \/ \E c \in Calls : ExportWrite(c)
    \/ \E c \in Calls : ExportZip(c)
    \/ \E c \in Calls : ExportDownload(c)
    \/ \E courseId \in CourseIds : GetCourse(courseId)
    \/ \E courseId \in CourseIds, course \in SampleDocs \cup {NoCourse} :
          UpdateCourse(courseId, course)

SpecArchive == InitArchive /\ [][NextArchive]_vars

NextEditor ==
    \/ \E optionIndex \in 0..(MaxEditorOptions - 1), value \in OptionTexts :
          updateQuestionOption(optionIndex, value)
    \/ addQuestionOption
    \/ \E optionIndex \in 0..(MaxEditorOptions - 1) : removeQuestionOption(optionIndex)
    \/ \E optionIndex \in 0..(MaxEditorOptions - 1) : chooseCorrectAnswer(optionIndex)

SpecEditor == InitEditor /\ [][NextEditor]_vars

NextSave ==
    \/ \E optionIndex \in 0..(MaxEditorOptions - 1), value \in OptionTexts :
          updateQuestionOption(optionIndex, value)
    \/ addQuestionOption
    \/ \E optionIndex \in 0..(MaxEditorOptions - 1) : removeQuestionOption(optionIndex)
    \/ \E optionIndex \in 0..(MaxEditorOptions - 1) : chooseCorrectAnswer(optionIndex)
    \/ handleSave
    \/ SaveSucceeds
    \/ SaveFails

SpecSave == InitSave /\ [][NextSave]_vars

NextUpload == \E names \in SUBSET FileNames, folderId \in FolderIds : Upload(names, folderId)

SpecUpload == InitUpload /\ [][NextUpload]_vars

(***************************************************************************)
(* Claims about extractAndParseJSON.                                       *)
(***************************************************************************)
NoFenceIn(s) == indexOf(s, Fence) = 0
firstBraceOf(s) == indexOf(s, <<"{">>)

\* the reply has no fence and its first { opens a well-formed JSON object
DirectCase ==
    /\ extracted # NotYet
    /\ NoFenceIn(raw)
    /\ firstBraceOf(raw) # 0
    /\ valueEnd(raw, firstBraceOf(raw)) # 0

\* C1: without a code fence, when the first { opens a well-formed JSON
\* object, the result is exactly the text from that { through its matching }
\* (as the JSON grammar pairs them), whatever braces and quotes the strings
\* of the object hold and whatever text follows the object.
C1_DirectObjectBoundary ==
    DirectCase =>
        extracted = [threw |-> FALSE,
                     value |-> substring(raw, firstBraceOf(raw),
                                         valueEnd(raw, firstBraceOf(raw)))]

\* an object whose strings hold unbalanced braces and an escaped quote, with
\* prose holding a brace after it, has been extracted
C1_Witness ==
    /\ DirectCase
    /\ LET b == firstBraceOf(raw)
           e == valueEnd(raw, b)
           obj == substring(raw, b, e)
       IN  /\ countChar(obj, "{") # countChar(obj, "}")
           /\ indexOf(obj, <<BSLASH, QUOTE>>) # 0
           /\ e <= Len(raw)
           /\ countChar(substring(raw, e, Len(raw) + 1), "}") > 0

\* the places where a block labelled json opens on a line of its own, after
\* prose without a fence, and holds one well-formed object up to its closing
\* fence, followed by prose without a fence: <<start of object, its end>>
JsonFencedAt(s, i) ==
    LET b == wsRunEnd(s, i + Len(FenceJson) + 1)
        e == IF b <= Len(s) /\ s[b] = "{" THEN valueEnd(s, b) ELSE 0
    IN  /\ startsWithAt(s, FenceJson \o <<NL>>, i)
        /\ NoFenceIn(SubSeq(s, 1, i - 1))
        /\ e # 0
        /\ startsWithAt(s, <<NL>> \o Fence, e)
        /\ NoFenceIn(SubSeq(s, e + 1 + Len(Fence), Len(s)))

JsonFencedObjects(s) ==
    {<<wsRunEnd(s, i + Len(FenceJson) + 1),
       valueEnd(s, wsRunEnd(s, i + Len(FenceJson) + 1))>> :
          i \in {k \in 1..Len(s) : JsonFencedAt(s, k)}}

\* C2: a well-formed JSON object in a fenced block labelled json is returned
\* verbatim (surrounding white space aside), whatever the prose around the
\* block contains.
C2_JsonFenceVerbatim ==
    extracted # NotYet =>
        \A p \in JsonFencedObjects(raw) :
            extracted = [threw |-> FALSE, value |-> substring(raw, p[1], p[2])]

\* a json block between prose that holds braces of its own has been extracted
C2_Witness ==
    /\ extracted # NotYet
    /\ \E p \in JsonFencedObjects(raw) :
          /\ countChar(SubSeq(raw, 1, p[1] - 1), "{") > 0
          /\ countChar(SubSeq(raw, p[2], Len(raw)), "}") > 0
          /\ p[2] - p[1] > 2

(***************************************************************************)
(* Claims about course creation.                                           *)
(***************************************************************************)
\* request r got a reply text from the remote call
gotReply(r) == reqs[r].content # None

\* extraction and parse of each reply text, computed once
extractionOf == [t \in SampleReplies |-> extractAndParseJSON(t, "data")]
parses == [t \in SampleReplies |->
             ~extractionOf[t].threw /\ JSONparse(extractionOf[t].value)]
truncatedReplies == SampleReplies \cap Truncated

\* the candidate extraction yields for r's reply does not parse
parseFails(r) ==
    /\ gotReply(r)
    /\ ~extractionOf[reqs[r].content].threw
    /\ ~parses[reqs[r].content]

\* C3: a truncated JSON object as the reply gives a candidate, the parse of
\* it fails, and the caller gets the parse-failed error, not another error.
C3_TruncatedIsParseFailed ==
    \A r \in Reqs :
        (reqs[r].pc = "done" /\ reqs[r].content \in truncatedReplies) =>
            /\ parseFails(r)
            /\ reqs[r].jsonContent # None
            /\ reqs[r].status = 500
            /\ reqs[r].error = "ParseFailed"

\* the remote call, the extraction or the parse of request r has failed
creationStepFailed(r) ==
    \/ reqs[r].grokCalls > 0 /\ ~gotReply(r)
    \/ gotReply(r) /\ extractionOf[reqs[r].content].threw
    \/ parseFails(r)

\* C4: a course row exists only for a request whose remote call, extraction
\* and parse all succeeded; a request in which one of them failed ends with
\* an error response and inserts nothing.
C4_PersistOnlyAfterParse ==
    /\ \A c \in courses :
          /\ JSONparse(c.course_data)
          /\ \E r \in Reqs :
                /\ reqs[r].status = 200
                /\ reqs[r].courseId = c.id
                /\ ~creationStepFailed(r)
                /\ c.course_data = extractionOf[reqs[r].content].value
    /\ Cardinality(courses) = Cardinality({r \in Reqs : reqs[r].status = 200})
    /\ \A r \in Reqs :
          (reqs[r].pc = "done" /\ creationStepFailed(r)) =>
              /\ reqs[r].status = 500
              /\ reqs[r].error # "none"
              /\ \A c \in courses : c.id # reqs[r].courseId

\* one request stored its course, and each kind of failure has happened to
\* a finished request while the table holds that one course only
C4_Witness ==
    /\ Cardinality(courses) = 1
    /\ \E r \in Reqs : reqs[r].status = 200
    /\ \E r \in Reqs : reqs[r].pc = "done" /\ parseFails(r)

C4_WitnessRemote ==
    /\ \E r \in Reqs : reqs[r].pc = "done" /\ reqs[r].grokCalls > 0 /\ ~gotReply(r)

(***************************************************************************)
(* Claims about the exported document.                                     *)
(***************************************************************************)
HtmlSpecial == {"<", ">", QUOTE, APOS}
Entities == {escapeChar(ch) : ch \in HtmlSpecial \cup {"&"}}

\* where the inline script that embeds the course starts
scriptOpen(h) == CHOOSE i \in 1..Len(h) : h[i] = Tpl("<script>const courseData = ")[1]

\* the characters pat stand at position i of h and all come from the course
dataRunAt(h, pat, i) ==
    /\ i + Len(pat) - 1 <= Len(h)
    /\ \A k \in 1..Len(pat) : h[i + k - 1].src = "data" /\ h[i + k - 1].c = pat[k]

\* the course character at position i is what escapeHtml can have written
escapedAt(h, i) ==
    /\ h[i].c \notin HtmlSpecial
    /\ h[i].c = "&" => \E ent \in Entities : dataRunAt(h, ent, i)

\* C5: in the markup of the exported document (all that precedes the
\* inline script) every character that comes from a text field of the
\* course is HTML-escaped: no <, >, quote or apostrophe of the course, and
\* no & of the course other than as the start of an entity.
C5_TextFieldsEscaped ==
    \A k \in 1..Len(rendered) :
        LET h == rendered[k].html
        IN  \A i \in 1..(scriptOpen(h) - 1) : h[i].src = "data" => escapedAt(h, i)

ScriptOpenTag == SubSeq(ScriptText, 1, 8)
ScriptCloseTag == SubSeq(ScriptText, 17, 25)

\* C6: when a lesson's content is the script text, the exported document
\* holds neither the opening nor the closing script tag of that text in raw
\* form, in the markup or in the inline script.
C6_ScriptContentOnlyEscaped ==
    \A k \in 1..Len(rendered) :
        (\E l \in 1..Len(exportCourse.lessons) :
              exportCourse.lessons[l].content = ScriptText) =>
            LET h == rendered[k].html
            IN  \A i \in 1..Len(h) :
                    ~dataRunAt(h, ScriptOpenTag, i) /\ ~dataRunAt(h, ScriptCloseTag, i)

\* C7: the exported document makes the browser load nothing: no chunk of
\* it names a resource to fetch.
C7_SelfContained ==
    \A k \in 1..Len(rendered) :
        \A i \in 1..Len(rendered[k].html) : rendered[k].html[i].url = ""

recordedSelection(st, p) ==
    LET questionId == domQuestionId(exportCourse, p)
    IN  IF has(st.selectedAnswers, questionId) THEN <<st.selectedAnswers[questionId]>> ELSE <<>>

\* C9: on the exported page a click on an option or on the check button of
\* one question leaves the recorded selection, the option classes and the
\* explanation display of every other question as they were, whatever ids
\* the course gives its questions (absent, equal, or equal after
\* replacement of the characters outside the id class).
C9_ClickStaysInQuestion ==
    [][\A p \in QuestionAt(exportCourse) :
          (lastClick'.kind \in {"select", "check"} /\ lastClick'.at # p) =>
              /\ recordedSelection(state', p) = recordedSelection(state, p)
              /\ dom'.optionClasses[p] = dom.optionClasses[p]
              /\ dom'.explanation[p] = dom.explanation[p]]_vars

\* C10: after every sequence of clicks the exported page shows what the
\* live viewer shows: the same classes (selected, correct, incorrect) on
\* every option, the same explanations and the same solutions.
C10_ExportMatchesLive ==
    /\ \A p \in QuestionAt(exportCourse) :
          /\ \A i \in DOMAIN dom.optionClasses[p] :
                dom.optionClasses[p][i] = liveOptionClasses(exportCourse, p, i - 1)
          /\ dom.explanation[p] = liveExplanation(exportCourse, p)
    /\ \A x \in ExerciseAt(exportCourse) : dom.solution[x] = liveSolution(exportCourse, x)

(***************************************************************************)
(* Claims about the export endpoint's files.                               *)
(***************************************************************************)
\* path is the export directory of courseId, or lies under it
inExportDir(path, courseId) ==
    path = exportDir(courseId) \/ under(exportDir(courseId), path)

\* export request c has been answered
answered(c) == exportCalls[c].pc = "done" /\ exportCalls[c].status # 0

\* another export request for the course of c is between its arrival and its end
sameCourseInFlight(c) ==
    \E d \in Calls \ {c} :
        /\ exportCalls[d].pc \notin {"idle", "done"}
        /\ exportCalls[d].courseId = exportCalls[c].courseId

\* C11: once an export request has been answered (200, 404 or 500), and
\* no other export of the same course is under way, neither its export
\* directory (with what is in it) nor its zip file exists.
C11_ExportCleansUp ==
    \A c \in Calls :
        (answered(c) /\ ~sameCourseInFlight(c)) =>
            \A e \in exportsDir :
                /\ ~inExportDir(e.path, exportCalls[c].courseId)
                /\ e.path # zipPath(exportCalls[c].courseId)

\* export requests c and d are for the same course and neither had ended
\* when the other arrived (in the state calls)
overlapping(calls, c, d) ==
    /\ calls[d].pc # "idle"
    /\ calls[d].courseId = calls[c].courseId
    /\ d \notin calls[c].after
    /\ c \notin calls[d].after

\* the entries that a step adds, removes or replaces
touched == (exportsDir' \ exportsDir) \cup (exportsDir \ exportsDir')

\* C12: the archive an export request of course X returns holds nothing but
\* index.html rendered by an export of X, and holds it unless another export
\* of X itself ran at the same time, whatever exports of other courses ran
\* before or run meanwhile; and every step of an export request adds,
\* replaces or removes entries only at the directory and the zip path named
\* after its own course id.
C12_ArchiveIsolated ==
    [][/\ \A c \in Calls :
             exportCalls'[c].status = 200 =>
                 /\ \A f \in exportCalls'[c].archive :
                       /\ f.name = << <<"index.html">> >>
                       /\ f.kind = "file"
                       /\ f.of = exportCalls'[c].courseId
                 /\ (\A d \in Calls \ {c} : ~overlapping(exportCalls', c, d)) =>
                       Cardinality(exportCalls'[c].archive) = 1
       /\ \A e \in touched :
             \E c \in Calls :
                 /\ exportCalls'[c] # exportCalls[c]
                 /\ \/ inExportDir(e.path, exportCalls'[c].courseId)
                    \/ e.path = zipPath(exportCalls'[c].courseId)]_vars

\* an export of one course has returned its archive after an export of
\* another course had ended and left its directory behind
C12_Witness ==
    \E c \in Calls, d \in Calls :
        /\ exportCalls[c].status = 200
        /\ exportCalls[c].archive # {}
        /\ d \in exportCalls[c].after
        /\ exportCalls[d].status = 200
        /\ exportCalls[d].courseId # exportCalls[c].courseId
        /\ \E e \in exportsDir : inExportDir(e.path, exportCalls[d].courseId)

(***************************************************************************)
(* Claims about the creation and store endpoints.                          *)
(***************************************************************************)
\* creation request r has been given its course id
hasCourseId(r) == reqs[r].courseId # 0

\* C13: creation requests that run at the same time share no identifier:
\* each request that gets as far as its course id gets an id that no other
\* request has, so that no request's insert is refused because of another.
C13_OwnCourseId ==
    \A r1 \in Reqs, r2 \in Reqs :
        (r1 # r2 /\ hasCourseId(r1) /\ hasCourseId(r2)) =>
            reqs[r1].courseId # reqs[r2].courseId

\* C14: a successful update of id k leaves one row with id k, whose document
\* is the submitted one as it is and whose title and description are its
\* title and description (an absent description is stored as the empty
\* text), whatever the row held before, and answers with that document; a
\* get of k answers with the document of the row.
C14_UpdateReplaces ==
    [][ops' = ops + 1 =>
          LET k == lastAnswer'.courseId
              doc == lastAnswer'.course
              rows == {row \in courses' : row.id = k}
          IN  /\ (lastAnswer'.op = "update" /\ lastAnswer'.status = 200) =>
                    /\ Cardinality(rows) = 1
                    /\ \A row \in rows :
                          /\ row.course_data = doc
                          /\ row.title = doc.title
                          /\ row.description = (IF doc.description = Undef THEN ""
                                                ELSE doc.description)
                    /\ lastAnswer'.body = doc
              /\ (lastAnswer'.op = "get" /\ lastAnswer'.status = 200) =>
                    /\ courses' = courses
                    /\ \A row \in rows : lastAnswer'.body = row.course_data]_vars

\* an update has overwritten a document that an earlier update had written
\* (creation stamps createdAt, the submitted documents carry none) and that
\* differs from it in title and description
C14_Witness ==
    /\ lastAnswer.op = "update"
    /\ lastAnswer.status = 200
    /\ lastAnswer.replaced # NoCourse
    /\ lastAnswer.replaced.createdAt = 0
    /\ lastAnswer.replaced.title # lastAnswer.course.title
    /\ lastAnswer.replaced.description # lastAnswer.course.description
    /\ \E row \in courses : row.id = lastAnswer.courseId /\ row.course_data = lastAnswer.course

\* C15: every stored document carries the id of its row, a get of k answers
\* with a document whose id is k, and no two rows have the same id, after
\* any sequence of creations and updates.
C15_IdImmutable ==
    /\ \A row \in courses : row.course_data.id = row.id
    /\ (lastAnswer.op = "get" /\ lastAnswer.status = 200) =>
          lastAnswer.body.id = lastAnswer.courseId
    /\ \A row1 \in courses, row2 \in courses : row1.id = row2.id => row1 = row2

\* C16: in every document that creation stores and returns, the
\* correctAnswer of every question is an index of its options: a value
\* outside [0, options.length) has been replaced by the last index.
C16_CorrectAnswerClamped ==
    (lastAnswer.op = "create" /\ lastAnswer.status = 200) =>
        \A doc \in {lastAnswer.body} \cup
                    {row.course_data : row \in rowsOf(lastAnswer.courseId)} :
            \A l \in DOMAIN doc.lessons.items :
                \A q \in DOMAIN doc.lessons.items[l].questions :
                    LET question == doc.lessons.items[l].questions[q]
                        given == lastAnswer.course.lessons.items[l].questions[q].correctAnswer
                        last == Len(question.options) - 1
                    IN  question.correctAnswer =
                            (IF given < 0 \/ given > last THEN last ELSE given)

(***************************************************************************)
(* Claims about the course editor.                                         *)
(***************************************************************************)
\* C17: whatever options are added, removed or edited and whichever correct
\* answer is chosen, the question keeps at least one option and its
\* correctAnswer is an index of its options; after the removal of the
\* option correctAnswer pointed at, correctAnswer is the same index when an
\* option is left there and the last index otherwise.
C17_EditorKeepsAnswerValid ==
    /\ Len(editedQuestion.options) >= 1
    /\ editedQuestion.correctAnswer >= 0
    /\ editedQuestion.correctAnswer < Len(editedQuestion.options)
    /\ (lastEdit.op = "remove" /\ lastEdit.index = lastEdit.was) =>
          editedQuestion.correctAnswer =
              (IF lastEdit.was < Len(editedQuestion.options) THEN lastEdit.was
               ELSE Len(editedQuestion.options) - 1)

\* the option correctAnswer pointed at was the last one and has been removed
C17_Witness ==
    /\ lastEdit.op = "remove"
    /\ lastEdit.index = lastEdit.was
    /\ lastEdit.was = Len(editedQuestion.options)
    /\ editedQuestion.correctAnswer = lastEdit.was - 1

(***************************************************************************)
(* Claims about the documents the store accepts.                           *)
(***************************************************************************)
\* the defects the claim names: title absent or empty, lessons present but
\* not a sequence
defective(doc) == falsyText(doc.title) \/ doc.lessons.kind = "string"

\* C18: a creation under an unused id, or an update of a stored course, is
\* answered with an error exactly when the document's title is absent or
\* empty or its lessons field is present but not a sequence, and a request
\* answered with an error leaves the store as it was.
C18_RejectsExactlyDefective ==
    [][(/\ ops' = ops + 1
        /\ lastAnswer'.op \in {"create", "update"}
        /\ lastAnswer'.course # NoCourse
        /\ (lastAnswer'.op = "create") = (rowsOf(lastAnswer'.courseId) = {}))
       => /\ (lastAnswer'.status # 200) = defective(lastAnswer'.course)
          /\ (lastAnswer'.status # 200) => courses' = courses]_vars

(***************************************************************************)
(* Claims about requests that name a course id the store does not hold.    *)
(***************************************************************************)
\* the step is a get or an update of an id that is not in the store
tableRequestOnUnknownId ==
    /\ ops' = ops + 1
    /\ lastAnswer'.op \in {"get", "update"}
    /\ rowsOf(lastAnswer'.courseId) = {}

\* the step is the lookup of export request c, of an id that is not in the store
exportLookupOnUnknownId(c) ==
    /\ exportCalls[c].pc = "idle"
    /\ exportCalls'[c].pc # "idle"
    /\ rowsOf(exportCalls'[c].courseId) = {}

\* the step leaves the table and the exports directory as they were
storeUntouched == courses' = courses /\ exportsDir' = exportsDir

\* the body of the update carries a course with a title
wellFormed(course) == course # NoCourse /\ ~falsyText(course.title)

\* C19 as stated: every get, update and export of an id that is not in the
\* store is answered 404 and leaves the store unchanged.
C19_UnknownIdNotFound ==
    [][/\ tableRequestOnUnknownId => (lastAnswer'.status = 404 /\ storeUntouched)
       /\ \A c \in Calls : exportLookupOnUnknownId(c) =>
             /\ exportCalls'[c].status = 404
             /\ exportCalls'[c].pc = "done"
             /\ storeUntouched]_vars

\* C19, amended: a get, an export, and an update whose body carries a course
\* with a title are answered 404 on an id that is not in the store; an
\* update whose body lacks the course or its title is answered 400; each of
\* them leaves the table and the exports directory unchanged, and the
\* export request ends there.
C19_UnknownIdNotFoundWhenWellFormed ==
    [][/\ tableRequestOnUnknownId =>
             /\ lastAnswer'.status =
                   (IF lastAnswer'.op = "update" /\ ~wellFormed(lastAnswer'.course)
                    THEN 400 ELSE 404)
             /\ storeUntouched
       /\ \A c \in Calls : exportLookupOnUnknownId(c) =>
             /\ exportCalls'[c].status = 404
             /\ exportCalls'[c].pc = "done"
             /\ storeUntouched]_vars

\* an export and then an update with a well-formed body have named an id
\* that is not in the store; both were answered 404
C19_Witness ==
    /\ lastAnswer.op = "update"
    /\ wellFormed(lastAnswer.course)
    /\ lastAnswer.status = 404
    /\ rowsOf(lastAnswer.courseId) = {}
    /\ \E c \in Calls :
          /\ exportCalls[c].pc = "done"
          /\ exportCalls[c].status = 404
          /\ rowsOf(exportCalls[c].courseId) = {}
          /\ \A entry \in exportsDir :
                /\ ~inExportDir(entry.path, exportCalls[c].courseId)
                /\ entry.path # zipPath(exportCalls[c].courseId)

(***************************************************************************)
(* Claims about the remote call of a creation request.                     *)
(***************************************************************************)
\* the errors of a remote call that failed
RemoteErrors == {"FetchFailed", "GrokApiError", "EmptyResponse", "NoTextContent"}

\* the errors of an extraction that failed
ExtractionErrors == {"NoJsonContent", parseFailureError, "TypeError"}

\* C20: a creation request issues the remote call at most once, and only
\* on its way in; a remote call that fails ends the request at once with an
\* error response, a failed extraction ends it with an error response after
\* at most the write of the candidate, and a request that has ended does
\* nothing more.
C20_NoRetry ==
    [][\A r \in Reqs :
        /\ reqs'[r].grokCalls <= 1
        /\ reqs[r].pc # "idle" => reqs'[r].grokCalls = reqs[r].grokCalls
        /\ reqs[r].pc = "done" => reqs'[r] = reqs[r]
        /\ (reqs[r].pc = "fetching" /\ reqs'[r] # reqs[r] /\ reqs'[r].pc # "savingRaw") =>
              /\ reqs'[r].pc = "done"
              /\ reqs'[r].status = 500
              /\ reqs'[r].error \in RemoteErrors
        /\ (reqs[r].pc = "savingRaw" /\ reqs'[r] # reqs[r] /\ reqs'[r].pc # "inserting") =>
              \/ reqs'[r].pc = "savingJson"
              \/ /\ reqs'[r].pc = "done"
                 /\ reqs'[r].status = 500
                 /\ reqs'[r].error \in ExtractionErrors
        /\ (reqs[r].pc = "savingJson" /\ reqs'[r] # reqs[r]) =>
              /\ reqs'[r].pc = "done"
              /\ reqs'[r].status = 500
              /\ reqs'[r].error \in ExtractionErrors]_vars

\* one request has ended on a failed remote call and another on a failed
\* extraction, each after a single call
C20_Witness ==
    \E r1 \in Reqs, r2 \in Reqs :
        /\ reqs[r1].pc = "done" /\ reqs[r1].error \in RemoteErrors /\ reqs[r1].grokCalls = 1
        /\ reqs[r2].pc = "done" /\ reqs[r2].error \in ExtractionErrors
        /\ reqs[r2].grokCalls = 1

(***************************************************************************)
(* Further claims about extractAndParseJSON.                               *)
(***************************************************************************)
\* C21: what extraction reports depends on the completion flag of the
\* remote response: some reply text (the one at hand, a truncated object or
\* one of the sample replies) gets one report when the response was cut off
\* by the token budget and another when it was not.
C21_ReportDependsOnFlag ==
    \E content \in Truncated \cup SampleReplies \cup {raw} :
        extractAndParseJSON(content, CutOff) # extractAndParseJSON(content, Stopped)

(***************************************************************************)
(* Claims about the name of the exported archive.                          *)
(***************************************************************************)
Alphanumeric == {"T", "b", "1", "2"}
Separators == {"-", "_"}

\* name is text with every character that is not alphanumeric replaced by a
\* separator, followed by the extension
namedAfter(name, text) ==
    /\ name = SubSeq(name, 1, Len(text)) \o ZipExtension
    /\ Len(name) = Len(text) + Len(ZipExtension)
    /\ \A i \in 1..Len(text) :
          IF text[i] \in Alphanumeric THEN name[i] = text[i] ELSE name[i] \in Separators

\* C22: the archive an export request returns is named after the title of
\* the course, every character of the title that is not alphanumeric
\* replaced by a separator, and .zip.
C22_ArchiveNamedAfterTitle ==
    \A c \in Calls :
        (exportCalls[c].pc = "done" /\ exportCalls[c].status = 200) =>
            namedAfter(exportCalls[c].filename, chars(exportCalls[c].course.title))

(***************************************************************************)
(* Claims about the editor's working copy.                                 *)
(***************************************************************************)
\* the step is an edit
editStep == editsLeft' # editsLeft

\* the step ends a save request, with the given outcome
saveEnds(succeeded) ==
    /\ saving # NoSave
    /\ saving' = NoSave
    /\ (lastAnswer'.status = 200) = succeeded

\* the question of the stored course
storedQuestion == questionOf(theRow(openedRow.id).course_data)

\* C23: an edit changes neither the stored course nor the course the editor
\* was opened on; the stored course changes only when a save succeeds, and
\* then to the course the save request carried; a save that fails leaves
\* the stored course and the opened course as they were.
C23_EditorDetached ==
    [][/\ editStep => (courses' = courses /\ selectedCourse' = selectedCourse)
       /\ courses' # courses =>
             /\ saveEnds(TRUE)
             /\ \A row \in courses' : row.id = openedRow.id => row.course_data = docOf(saving)
       /\ selectedCourse' # selectedCourse => saveEnds(TRUE)
       /\ saveEnds(FALSE) => (courses' = courses /\ selectedCourse' = selectedCourse)]_vars

\* edits were made and a save has failed: the editor's question differs
\* from the stored one and from the one the editor was opened on
C23_Witness ==
    /\ lastAnswer.op = "update"
    /\ lastAnswer.status = 500
    /\ editsLeft < MaxEdits
    /\ editedQuestion # selectedCourse
    /\ storedQuestion = selectedCourse
    /\ questionOf(lastAnswer.course) # storedQuestion

(***************************************************************************)
(* Claims about fenced blocks.  The fences of a reply pair up in order:    *)
(* the first opens a block, the second closes it, and so on.               *)
(***************************************************************************)
fenceStarts(s) == {i \in 1..Len(s) : startsWithAt(s, Fence, i)}

\* the number of fences before position i
rank(s, i) == Cardinality({j \in fenceStarts(s) : j < i})

\* <<opening fence, closing fence>> of each block
blocksOf(s) ==
    {<<o, c>> \in fenceStarts(s) \X fenceStarts(s) :
        rank(s, o) % 2 = 0 /\ rank(s, c) = rank(s, o) + 1}

\* the label of a block: what follows its opening fence on the line
labelOf(s, blk) == SubSeq(s, blk[1] + Len(Fence), indexOfFrom(s, <<NL>>, blk[1]) - 1)

\* the interior of a block: the lines between its opening and closing line
interiorOf(s, blk) == SubSeq(s, indexOfFrom(s, <<NL>>, blk[1]) + 1, blk[2] - 2)

\* what extraction reports for a candidate
reportOf(candidate) ==
    LET jsonContent == cutToBraces(trim(candidate))
    IN  IF Len(jsonContent) = 0 THEN [threw |-> TRUE, value |-> <<>>]
        ELSE [threw |-> FALSE, value |-> jsonContent]

JsonLabel == <<"j", "s", "o", "n">>

\* the reply holds fenced blocks, none of them labelled json
OtherFenceCase ==
    /\ extracted # NotYet
    /\ blocksOf(raw) # {}
    /\ \A blk \in blocksOf(raw) : labelOf(raw, blk) # JsonLabel

\* C24: when the reply holds fenced blocks and none labelled json, what
\* extraction reports is what it reports for the interior of one of the
\* blocks, whatever the label of the block and the text around it.
C24_FenceInterior ==
    OtherFenceCase =>
        \E blk \in blocksOf(raw) : extracted = reportOf(interiorOf(raw, blk))

\* the reply holds one fenced block, with no label or the label json, and
\* nothing but white space inside it
EmptyBlockCase ==
    /\ Cardinality(blocksOf(raw)) = 1
    /\ \A blk \in blocksOf(raw) :
          /\ labelOf(raw, blk) \in {<<>>, JsonLabel}
          /\ trim(interiorOf(raw, blk)) = <<>>

\* C25: extraction never returns an empty candidate: it returns a text of
\* at least one character or fails, and it fails on a reply of white space
\* alone and on a reply whose fenced block is empty.
C25_NoEmptyCandidate ==
    extracted # NotYet =>
        /\ ~extracted.threw => Len(extracted.value) > 0
        /\ trim(raw) = <<>> => extracted.threw
        /\ EmptyBlockCase => extracted.threw

\* extraction has failed on a reply whose fenced block is empty, with prose
\* around the block
C25_Witness ==
    /\ extracted # NotYet
    /\ extracted.threw
    /\ EmptyBlockCase
    /\ ~startsWithAt(raw, Fence, 1)

(***************************************************************************)
(* Claims about the diagnostic files of a failed creation.                 *)
(***************************************************************************)
\* C26: once a creation request has ended because its candidate does not
\* parse, the raw response, the extracted candidate and the error summary
\* have all been written.
C26_ArtifactsWritten ==
    \A r \in Reqs :
        (parseFails(r) /\ reqs[r].pc = "done") =>
            /\ debugFiles.rawResponse # None
            /\ debugFiles.jsonResponse # None
            /\ debugFiles.errorSummary # None

(***************************************************************************)
(* Claims about export requests for the same course.                       *)
(***************************************************************************)
\* C27: an export request that ran at the same time as another export of
\* the same course and has returned its archive has returned a complete
\* archive of the snapshot it read: index.html rendered from the course it
\* loaded, and nothing else.
C27_SameCourseExportsApart ==
    \A c \in Calls, d \in Calls :
        (c # d /\ exportCalls[c].status = 200 /\ overlapping(exportCalls, c, d)) =>
            /\ Cardinality(exportCalls[c].archive) = 1
            /\ \A f \in exportCalls[c].archive :
                  /\ f.kind = "file"
                  /\ f.course = exportCalls[c].course

\* C28: an export request whose handler has run to its end has been
\* answered, with the archive or with an error object (no step answers a
\* request after its handler has ended), whether or not building the
\* archive or sending it failed.
C28_ExportAnswered ==
    \A c \in Calls :
        exportCalls[c].pc = "done" => exportCalls[c].status \in {200, 404, 500}

(***************************************************************************)
(* Claims about the option marked correct.                                 *)
(***************************************************************************)
\* the option that correctAnswer points at
correctOption(q) == q.options[q.correctAnswer + 1]

\* C29: the removal of an option other than the one marked correct leaves
\* the option marked correct the same, by content.
C29_CorrectOptionKept ==
    [][(/\ lastEdit'.op = "remove"
        /\ Len(editedQuestion'.options) = Len(editedQuestion.options) - 1
        /\ lastEdit'.index # editedQuestion.correctAnswer)
       => correctOption(editedQuestion') = correctOption(editedQuestion)]_vars

(***************************************************************************)
(* Claims about the files an upload request reads.                         *)
(***************************************************************************)
\* C30: the files read into the prompt of an upload request are exactly the
\* markdown files that request sent, whatever uploads came before it.
C30_PromptFromOwnFiles ==
    \A k \in 1..Len(prompts) :
        prompts[k].read = {f \in prompts[k].sent : endsWithMd(f.name)}

====
